---------------------------- MODULE Spec2Model ----------------------------
(***************************************************************************)
(* A model of the Astra desktop bridge (apps/desktop/src-tauri/src):       *)
(*   skills/shell.rs       policy gate and command executor                *)
(*   bridge.rs             the loopback control server and its handlers    *)
(*   macos_main_queue.rs   the main-queue (thread affinity) dispatcher     *)
(*   autopilot/*.rs        action executor, screen capture, permissions    *)
(*                                                                         *)
(* Text is modelled as a sequence of one-character strings, so that        *)
(* lowercasing and substring search are computed, not assumed.             *)
(***************************************************************************)
EXTENDS Integers, Sequences, FiniteSets, TLC

(***************************************************************************)
(* State.                                                                  *)
(***************************************************************************)
VARIABLES
  \* policy gate, checked as a pure function
  gateCmd,      \* the command text handed to the gate
  gateClass,    \* None, or Some(classification) once the gate has run
  \* macos_main_queue.rs
  platform,     \* cfg(target_os): "macos" or "other"
  tpc,          \* per thread: where it stands inside sync
  ctx,          \* per calling thread: the Ctx of its current sync call
  mainQ,        \* the main dispatch queue: callers whose Ctx waits to be run
  tramp,        \* None, or Some(t): the main thread runs trampoline on t's Ctx
  alive,        \* per thread: not torn down by an escaped panic
  calls,        \* per thread: how many sync calls it has started
  returned,     \* the sync calls that have returned, in order of return
  \* bridge.rs
  desktopSkills, \* cfg(feature = "desktop-skills")
  host,         \* the host's monitors, input permission and display size
  inbox,        \* requests received by the listener, not yet taken by the loop
  srv,          \* the bridge thread: "accept", "handle", "respond" or "dead"
  cur,          \* None, or Some(the request the loop body holds)
  resp,         \* None, or Some(the response the handler returned)
  log,          \* the recorded calls, tagged <<rid, name, arg, x, y>>
  sent,         \* the responses sent, in order
  arrived,      \* how many requests have reached the listener
  \* the components called on their own, as functions of their arguments
  actIn,        \* AutopilotExecutor::execute: the action, image size and host
  actOut,       \* None, or Some(what execute returned and the calls it made)
  capIn,        \* capture_screen: max_width, quality and the host
  capOut,       \* None, or Some(what capture_screen returned)
  outIn,        \* the subprocess output handed to truncation and display
  outOut        \* None, or Some(the truncated streams and the display string)

gateVars == <<gateCmd, gateClass>>

syncVars == <<platform, tpc, ctx, mainQ, tramp, alive, calls, returned>>

bridgeVars == <<desktopSkills, host, inbox, srv, cur, resp, log, sent, arrived>>

unitVars == <<actIn, actOut, capIn, capOut, outIn, outOut>>

(***************************************************************************)
(* Option<T>: None is the empty tuple, Some(v) the one-element tuple.      *)
(***************************************************************************)
None == <<>>

Some(v) == <<v>>

IsSome(o) == Len(o) = 1

Unwrap(o) == o[1]

(***************************************************************************)
(* skills/shell.rs : the policy gate                                       *)
(***************************************************************************)
UpperChars == <<"A", "B", "C", "D", "E", "F", "G", "H", "I", "J", "K", "L", "M", "N", "O", "P", "Q", "R", "S", "T", "U", "V", "W", "X", "Y", "Z">>

LowerChars == <<"a", "b", "c", "d", "e", "f", "g", "h", "i", "j", "k", "l", "m", "n", "o", "p", "q", "r", "s", "t", "u", "v", "w", "x", "y", "z">>

\* char::to_lowercase on the ASCII range (the model's alphabet is ASCII).
to_lowercase_char(c) ==
  IF \E i \in 1..Len(UpperChars) : UpperChars[i] = c
    THEN LowerChars[CHOOSE i \in 1..Len(UpperChars) : UpperChars[i] = c]
    ELSE c

\* str::to_lowercase
to_lowercase(s) == [i \in 1..Len(s) |-> to_lowercase_char(s[i])]

\* str::contains(&str): substring search
contains(s, p) ==
  \E i \in 0..(Len(s) - Len(p)) : SubSeq(s, i + 1, i + Len(p)) = p

BLOCKED_PATTERNS ==
  << <<"r", "m", " ", "-", "r", "f", " ", "/">>,
     <<"r", "m", " ", "-", "r", "f", " ", "/", "*">>,
     <<"r", "m", " ", "-", "r", "f", " ", "~">>,
     <<"r", "m", " ", "-", "r", "f", " ", "$", "H", "O", "M", "E">>,
     <<":", "(", ")", "{", ":", "|", ":", "&", "}", ";", ":">>,
     <<"m", "k", "f", "s">>,
     <<"d", "d", " ", "i", "f", "=">>,
     <<">", " ", "/", "d", "e", "v", "/", "s", "d">>,
     <<"c", "h", "m", "o", "d", " ", "-", "R", " ", "7", "7", "7", " ", "/">>,
     <<"s", "u", "d", "o", " ", "r", "m">>,
     <<"s", "u", "d", "o", " ", "m", "k", "f", "s">>,
     <<"s", "u", "d", "o", " ", "d", "d">>,
     <<"n", "c", " ", "-", "l">>,
     <<"n", "m", "a", "p">>,
     <<"c", "u", "r", "l", ".", "*", "|", ".", "*", "s", "h">>,
     <<"w", "g", "e", "t", ".", "*", "|", ".", "*", "s", "h">>,
     <<"c", "s", "r", "u", "t", "i", "l", " ", "d", "i", "s", "a", "b", "l", "e">>,
     <<"S", "I", "P">> >>

WARN_PATTERNS ==
  << <<"s", "u", "d", "o">>,
     <<"r", "m", " ", "-", "r", "f">>,
     <<"c", "h", "m", "o", "d">>,
     <<"c", "h", "o", "w", "n">>,
     <<"k", "i", "l", "l", " ", "-", "9">>,
     <<"p", "k", "i", "l", "l">>,
     <<"s", "h", "u", "t", "d", "o", "w", "n">>,
     <<"r", "e", "b", "o", "o", "t">> >>

\* Whether one pattern of a rule list matches the (already lowercased) command.
\* Mutant: the pattern is compared as written, without lowercasing it.
PatternHitRaw(cmd_lower, pattern) == contains(cmd_lower, pattern)

PatternHit(cmd_lower, pattern) == contains(cmd_lower, to_lowercase(pattern))

\* The first pattern of `patterns`, in list order, that the command contains.
FirstHit(command, patterns) ==
  LET cmd_lower == to_lowercase(command)
      hits == {i \in 1..Len(patterns) : PatternHit(cmd_lower, patterns[i])}
  IN  IF hits = {} THEN None
      ELSE Some(patterns[CHOOSE i \in hits : \A j \in hits : i <= j])

\* BashExecutor::is_blocked : Some(pattern of the reason) or None
is_blocked(command) == FirstHit(command, BLOCKED_PATTERNS)

\* BashExecutor::has_warning : Some(pattern of the warning) or None
\* Mutant: the warn list is not consulted.
has_warning_off(command) == None

has_warning(command) == FirstHit(command, WARN_PATTERNS)

\* The classification BashExecutor::execute acts on: the blocked check comes
\* first and returns; the warn check is reached only when it found nothing.
classify(command) ==
  IF IsSome(is_blocked(command))
    THEN [kind |-> "Blocked", pattern |-> Unwrap(is_blocked(command))]
  ELSE IF IsSome(has_warning(command))
    THEN [kind |-> "Warned", pattern |-> Unwrap(has_warning(command))]
  ELSE [kind |-> "Allowed", pattern |-> <<>>]

(***************************************************************************)
(* Command texts for the policy gate: concatenations of fragments, so a    *)
(* pattern can sit at the start, in the middle, at the end, or be formed   *)
(* across a fragment boundary, in either letter case.                      *)
(***************************************************************************)
MaxFrags == 2

Fragments ==
  { <<"r", "m", " ", "-", "r", "f">>,
    <<" ", "/">>,
    <<" ", "~">>,
    <<"s", "u", "d", "o", " ">>,
    <<"r", "m", " ", "x">>,
    <<"e", "c", "h", "o", " ", "h", "i">>,
    <<"g", "o", "s", "s", "i", "p">>,
    <<"S", "I", "P">>,
    <<"N", "M", "a", "p">>,
    <<" ", "&", "&", " ">>,
    <<"C", "H", "M", "O", "D", " ">>,
    <<"-", "r", " ", "7", "7", "7", " ", "/">>,
    <<"l", "s">>,
    <<"k", "i", "l", "l", " ", "-", "9", " ", "1">>,
    <<"c", "u", "r", "l", " ", "u", "|", "s", "h">> }

RECURSIVE Flatten(_)
Flatten(ss) == IF ss = <<>> THEN <<>> ELSE Head(ss) \o Flatten(Tail(ss))

GateCommands ==
  UNION { {Flatten(fs) : fs \in [1..n -> Fragments]} : n \in 0..MaxFrags }

(***************************************************************************)
(* macos_main_queue.rs : sync                                              *)
(***************************************************************************)
\* the sync calls started, all threads together
MaxSyncCalls == 4

Threads == {"main", "bg1", "bg2"}

Work == {"returns", "panics"}

EmptyCtx == [f |-> None, result |-> None, work |-> "returns", runs |-> 0, ranOn |-> None]

\* imp::is_main_thread (pthread_main_np() != 0); the non-macOS imp has no
\* such test and always invokes directly.
\* Mutant: the test is lost and every call is marshaled.
is_main_thread_never(t) == FALSE

is_main_thread(t) == t = "main"

\* std::panic::catch_unwind(AssertUnwindSafe(f)): Err for a panicking
\* closure, Ok otherwise.
\* Mutant: f() is called without catch_unwind, so a panic unwinds out.
call_unguarded(work) == IF work = "panics" THEN "Unwind" ELSE "Ok"

catch_unwind(work) == IF work = "panics" THEN "Err" ELSE "Ok"

\* sync runs the closure on the caller's own thread: the macOS main-thread
\* path (line 45) and the whole non-macOS imp (line 92).
RunsInline(t) == platform = "other" \/ is_main_thread(t)

\* A thread enters sync(work). Inline path: the closure starts on the caller's
\* thread. Marshaled path: Ctx is built and dispatch_sync_f blocks the caller.
SyncEnter(t, work) ==
  /\ tpc[t] = "idle" /\ alive[t]
  /\ calls["main"] + calls["bg1"] + calls["bg2"] < MaxSyncCalls
  /\ t = "main" => tramp = None
  /\ calls' = [calls EXCEPT ![t] = @ + 1]
  /\ IF RunsInline(t)
       THEN /\ tpc' = [tpc EXCEPT ![t] = "inline"]
            /\ ctx' = [ctx EXCEPT ![t] = [f |-> None, result |-> None, work |-> work,
                                          runs |-> 1, ranOn |-> Some(t)]]
            /\ UNCHANGED mainQ
       ELSE /\ tpc' = [tpc EXCEPT ![t] = "blocked"]
            /\ ctx' = [ctx EXCEPT ![t] = [f |-> Some(work), result |-> None, work |-> work,
                                          runs |-> 0, ranOn |-> None]]
            /\ mainQ' = Append(mainQ, t)
  /\ UNCHANGED <<platform, tramp, alive, returned, gateVars, bridgeVars, unitVars>>

\* The inline closure finishes; catch_unwind's value is what sync returns.
\* A panic that is not caught unwinds out of sync and ends the thread.
InlineFinish(t) ==
  /\ tpc[t] = "inline"
  /\ LET res == catch_unwind(ctx[t].work)
     IN  IF res = "Unwind"
           THEN /\ alive' = [alive EXCEPT ![t] = FALSE]
                /\ tpc' = [tpc EXCEPT ![t] = "dead"]
                /\ UNCHANGED returned
           ELSE /\ tpc' = [tpc EXCEPT ![t] = "idle"]
                /\ returned' = Append(returned,
                     [thread |-> t, work |-> ctx[t].work, runs |-> ctx[t].runs,
                      ranOn |-> ctx[t].ranOn, ret |-> res, marshaled |-> FALSE])
                /\ UNCHANGED alive
  /\ UNCHANGED <<platform, ctx, mainQ, tramp, calls, gateVars, bridgeVars, unitVars>>

\* The main thread, idle in its run loop, takes the next work item of the main
\* queue and enters trampoline: ctx.f.take() and the call of f.
TrampolineStart ==
  /\ platform = "macos" /\ alive["main"] /\ tpc["main"] = "idle"
  /\ tramp = None /\ mainQ # <<>>
  /\ LET t == Head(mainQ)
     IN  /\ mainQ' = Tail(mainQ)
         /\ IF IsSome(ctx[t].f)
              THEN /\ ctx' = [ctx EXCEPT ![t].f = None, ![t].runs = @ + 1,
                                         ![t].ranOn = Some("main")]
                   /\ tramp' = Some(t)
                   /\ UNCHANGED alive
              ELSE \* expect("closure already taken") panics inside extern "C"
                   /\ alive' = [alive EXCEPT !["main"] = FALSE]
                   /\ UNCHANGED <<ctx, tramp>>
  /\ UNCHANGED <<platform, tpc, calls, returned, gateVars, bridgeVars, unitVars>>

\* trampoline: catch_unwind(f) ends, ctx.result.write(res), and with the
\* work item done dispatch_sync_f lets the caller go. A panic that is not
\* caught leaves the extern "C" frame and takes the main thread down.
TrampolineFinish ==
  /\ IsSome(tramp)
  /\ LET t == Unwrap(tramp)
         res == catch_unwind(ctx[t].work)
     IN  IF res = "Unwind"
           THEN /\ alive' = [alive EXCEPT !["main"] = FALSE]
                /\ UNCHANGED <<ctx, tpc>>
           ELSE /\ ctx' = [ctx EXCEPT ![t].result = Some(res)]
                /\ tpc' = [tpc EXCEPT ![t] = "ready"]
                /\ UNCHANGED alive
  /\ tramp' = None
  /\ UNCHANGED <<platform, mainQ, calls, returned, gateVars, bridgeVars, unitVars>>

\* dispatch_sync_f has returned: ctx.result.assume_init() is sync's value.
\* Reading a result that was never written is undefined: any value.
SyncReturn(t) ==
  /\ tpc[t] = "ready"
  /\ \E ret \in (IF IsSome(ctx[t].result) THEN {Unwrap(ctx[t].result)}
                 ELSE {"Ok", "Err", "Garbage"}) :
       returned' = Append(returned,
         [thread |-> t, work |-> ctx[t].work, runs |-> ctx[t].runs,
          ranOn |-> ctx[t].ranOn, ret |-> ret, marshaled |-> TRUE])
  /\ tpc' = [tpc EXCEPT ![t] = "idle"]
  /\ UNCHANGED <<platform, ctx, mainQ, tramp, alive, calls, gateVars, bridgeVars, unitVars>>

SyncInit ==
  /\ platform \in {"macos", "other"}
  /\ tpc = [t \in Threads |-> "idle"]
  /\ ctx = [t \in Threads |-> EmptyCtx]
  /\ mainQ = <<>>
  /\ tramp = None
  /\ alive = [t \in Threads |-> TRUE]
  /\ calls = [t \in Threads |-> 0]
  /\ returned = <<>>

SyncNext ==
  \/ \E t \in Threads, work \in Work : SyncEnter(t, work)
  \/ \E t \in Threads : InlineFinish(t)
  \/ TrampolineStart
  \/ TrampolineFinish
  \/ \E t \in Threads : SyncReturn(t)

(***************************************************************************)
(* The policy gate as a pure function of the command text.                 *)
(***************************************************************************)
GateInit == gateCmd \in GateCommands /\ gateClass = None

GateIdle == gateCmd = <<>> /\ gateClass = None

Classify ==
  /\ gateClass = None
  /\ gateClass' = Some(classify(gateCmd))
  /\ UNCHANGED <<gateCmd, syncVars, bridgeVars, unitVars>>

(***************************************************************************)
(* skills/shell.rs : subprocess output, truncation and the display string  *)
(*                                                                         *)
(* A text produced at run time is a sequence of pieces <<tag, a, b>>:      *)
(*   <<"run", w, n>>       n characters of w bytes each (UTF-8 widths)     *)
(*   <<"cut", len, 0>>     "...\n[усечено, всего len символов]"            *)
(*   <<"err", 0, 0>>       "error: "                                      *)
(*   <<"code", c, 0>>      "код возврата: c\n"                             *)
(*   <<"nl", 0, 0>>        "\n"                                            *)
(*   <<"none", 0, 0>>      "нет вывода"                                    *)
(* so that lengths of thousands of bytes stay cheap to compute.            *)
(***************************************************************************)
STDOUT_BUDGET == 5000

STDERR_BUDGET == 2000

RECURSIVE byte_len(_)
\* str::len of a text of runs: its length in bytes
byte_len(s) ==
  IF s = <<>> THEN 0 ELSE Head(s)[2] * Head(s)[3] + byte_len(Tail(s))

RECURSIVE is_char_boundary(_, _)
\* str::is_char_boundary(idx) for 0 <= idx <= len
is_char_boundary(s, idx) ==
  IF idx = 0 THEN TRUE
  ELSE IF s = <<>> THEN FALSE
  ELSE LET w == Head(s)[2]
           bytes == w * Head(s)[3]
       IN  IF idx <= bytes THEN idx % w = 0
           ELSE is_char_boundary(Tail(s), idx - bytes)

RECURSIVE slice_to(_, _)
\* &s[..idx] for a char boundary idx
slice_to(s, idx) ==
  IF idx = 0 \/ s = <<>> THEN <<>>
  ELSE LET w == Head(s)[2]
           bytes == w * Head(s)[3]
       IN  IF idx >= bytes THEN <<Head(s)>> \o slice_to(Tail(s), idx - bytes)
           ELSE <<<<"run", w, idx \div w>>>>

\* truncate_output(s, max_chars). The slice &s[..max_chars] indexes bytes and
\* panics when max_chars is not on a character boundary.
truncate_output(s, max_chars) ==
  IF byte_len(s) <= max_chars
    THEN [panic |-> FALSE, out |-> s]
  ELSE IF is_char_boundary(s, max_chars)
    THEN [panic |-> FALSE,
          out |-> slice_to(s, max_chars) \o <<<<"cut", byte_len(s), 0>>>>]
  ELSE [panic |-> TRUE, out |-> <<>>]

\* BashOutput::to_string
\* Mutant: the exit-code marker is put after the output, and an empty result
\* stays empty.
to_string_code_last(stdout, stderr, exit_code) ==
  stdout
  \o (IF stderr # <<>> THEN <<<<"nl", 0, 0>>, <<"err", 0, 0>>>> \o stderr ELSE <<>>)
  \o (IF exit_code # 0 THEN <<<<"code", exit_code, 0>>>> ELSE <<>>)

to_string(stdout, stderr, exit_code) ==
  LET r1 == IF stdout # <<>> THEN stdout ELSE <<>>
      r2 == IF stderr # <<>>
              THEN (IF r1 # <<>> THEN r1 \o <<<<"nl", 0, 0>>>> ELSE r1)
                   \o <<<<"err", 0, 0>>>> \o stderr
              ELSE r1
      r3 == IF exit_code # 0 THEN <<<<"code", exit_code, 0>>>> \o r2 ELSE r2
  IN  IF r3 = <<>> THEN <<<<"none", 0, 0>>>> ELSE r3

(***************************************************************************)
(* The host: what the subprocess layer may hand back to Command::output.   *)
(***************************************************************************)
HostStdouts ==
  { <<>>,
    <<<<"run", 1, 3>>>>,                         \* "hi\n"
    <<<<"run", 1, 5001>>>>,                      \* ASCII, one byte over the budget
    <<<<"run", 1, 4999>>, <<"run", 2, 1>>>> }    \* a 2-byte char across byte 5000

HostStderrs ==
  { <<>>,
    <<<<"run", 1, 12>>>> }

HostExitCodes == {0, 1}

\* The outcomes of Command::output(): a launch error, or the collected output.
SpawnOutcomes ==
  {[launched |-> FALSE, stdout |-> <<>>, stderr |-> <<>>, code |-> 0]}
  \cup [launched : {TRUE}, stdout : HostStdouts, stderr : HostStderrs,
        code : HostExitCodes]

(***************************************************************************)
(* bridge.rs : requests, bodies and their decoding                         *)
(*                                                                         *)
(* A body is the JSON text of the request, kept as what serde can see of   *)
(* it: whether it parses as a JSON object, and the value of each field the *)
(* request shapes name (None when the field is absent).                    *)
(***************************************************************************)
CmdBlocked == <<"r", "m", " ", "-", "r", "f", " ", "/">>

CmdPlain == <<"e", "c", "h", "o", " ", "h", "i">>

CmdWarned == <<"s", "u", "d", "o", " ", "l", "s">>

ShellCommands == {CmdBlocked, CmdPlain, CmdWarned}

NoFields ==
  [json |-> TRUE, command |-> None, actions |-> None, action |-> None,
   image_width |-> None, image_height |-> None, max_width |-> None,
   quality |-> None]

\* text that is not JSON at all
GarbageBody == [NoFields EXCEPT !.json = FALSE]

\* "{}"
EmptyObject == NoFields

ShellBody(c) == [NoFields EXCEPT !.command = Some(c)]

ComputerBody(acts) == [NoFields EXCEPT !.actions = Some(acts)]

CaptureBody(mw, q) == [NoFields EXCEPT !.max_width = mw, !.quality = q]

ActBody(a, iw, ih) ==
  [NoFields EXCEPT !.action = Some(a), !.image_width = iw, !.image_height = ih]

\* serde_json::from_str::<ShellRequest>: `command` is required
\* Mutant: a missing `command` defaults to the empty text (#[serde(default)]).
DecodeShellRequestLenient(body) ==
  IF body.json
    THEN Some([command |-> IF IsSome(body.command) THEN Unwrap(body.command) ELSE <<>>])
    ELSE None

DecodeShellRequest(body) ==
  IF body.json /\ IsSome(body.command)
    THEN Some([command |-> Unwrap(body.command)]) ELSE None

\* serde_json::from_str::<ComputerRequest>: `actions` is required
DecodeComputerRequest(body) ==
  IF body.json /\ IsSome(body.actions)
    THEN Some([actions |-> Unwrap(body.actions)]) ELSE None

\* serde_json::from_str::<AutopilotCaptureRequest>: both fields are optional
DecodeCaptureRequest(body) ==
  IF body.json
    THEN Some([max_width |-> body.max_width, quality |-> body.quality]) ELSE None

\* serde_json::from_str::<AutopilotActRequest>: action (with its `type`),
\* image_width and image_height are required
DecodeActRequest(body) ==
  IF /\ body.json /\ IsSome(body.action) /\ IsSome(body.image_width)
     /\ IsSome(body.image_height) /\ IsSome(Unwrap(body.action).type)
    THEN Some([action |-> Unwrap(body.action),
               image_width |-> Unwrap(body.image_width),
               image_height |-> Unwrap(body.image_height)])
    ELSE None

(***************************************************************************)
(* Responses: status, the kind of body, and the body's content. The texts   *)
(* of the source are Russian; the model names them in ASCII.               *)
(***************************************************************************)
Response(status, kind, text, output, n) ==
  [status |-> status, kind |-> kind, text |-> text, output |-> output, n |-> n]

NotFound == Response(404, "text", "not found", <<>>, 0)

BadRequest == Response(400, "text", "bad request", <<>>, 0)

Unavailable == Response(503, "text", "UNAVAILABLE", <<>>, 0)

\* What a handler hands back to the accept loop: the response, the calls it
\* made into the components (in order), and whether it panicked instead.
Handled(response, ev) == [resp |-> response, ev |-> ev, panic |-> FALSE]

Panicked(ev) == [resp |-> Unavailable, ev |-> ev, panic |-> TRUE]

\* One recorded call: <<name, arg, x, y>>
Ev(name, arg) == <<name, arg, 0, 0>>

(***************************************************************************)
(* skills/shell.rs : BashExecutor::execute, for one outcome `o` of the     *)
(* subprocess layer.                                                       *)
(***************************************************************************)
\* lines 93-95: the check in front of everything else in execute
\* Mutant: the blocked check is skipped.
blocked_check_skipped(command) == None

blocked_check(command) == is_blocked(command)

\* BashExecutor::new: no working directory is set
BashExecutor_new == [working_dir |-> None]

\* lines 104-112: the subprocess runs in the executor's working directory if
\* it has one, in the directory of the process otherwise
spawn_call(self) ==
  Ev("spawn", IF IsSome(self.working_dir) THEN "bash -c, current_dir" ELSE "bash -c")

\* execute on the executor that handle_shell_execute has just built
execute(command, o) ==
  IF IsSome(blocked_check(command))
    THEN [tag |-> "ErrBlocked", stdout |-> <<>>, stderr |-> <<>>, exit_code |-> 0,
          ev |-> <<Ev("execute", "ErrBlocked")>>]
  ELSE
    LET warn == IF IsSome(has_warning(command)) THEN <<Ev("warn", "println")>> ELSE <<>>
        pre == warn \o <<spawn_call(BashExecutor_new)>>
    IN  IF ~o.launched
          THEN [tag |-> "ErrExecution", stdout |-> <<>>, stderr |-> <<>>, exit_code |-> 0,
                ev |-> pre \o <<Ev("execute", "ErrExecution")>>]
        ELSE
          LET so == truncate_output(o.stdout, STDOUT_BUDGET)
              se == truncate_output(o.stderr, STDERR_BUDGET)
          IN  IF so.panic \/ se.panic
                THEN [tag |-> "Panic", stdout |-> <<>>, stderr |-> <<>>, exit_code |-> 0,
                      ev |-> pre \o <<Ev("execute", "Panic")>>]
                ELSE [tag |-> "Ok", stdout |-> so.out, stderr |-> se.out,
                      exit_code |-> o.code,
                      ev |-> pre \o <<Ev("execute", "Ok")>>]

(***************************************************************************)
(* bridge.rs : the handlers. `features` is the desktop-skills build flag.  *)
(***************************************************************************)
\* handle_shell_preview
\* Mutant: the preview runs the command through the executor's policy gate.
handle_shell_preview_gated(body) ==
  LET parsed == DecodeShellRequest(body)
  IN  IF ~IsSome(parsed) THEN Handled(BadRequest, <<>>)
      ELSE IF IsSome(is_blocked(Unwrap(parsed).command))
        THEN Handled(Unavailable, <<Ev("execute", "ErrBlocked")>>)
      ELSE Handled(Response(200, "shell", "", Unwrap(parsed).command, 0), <<>>)

handle_shell_preview(body) ==
  LET parsed == DecodeShellRequest(body)
  IN  IF IsSome(parsed)
        THEN Handled(Response(200, "shell", "", Unwrap(parsed).command, 0), <<>>)
        ELSE Handled(BadRequest, <<>>)

\* handle_shell_execute
handle_shell_execute(body, features, o) ==
  LET parsed == DecodeShellRequest(body)
  IN  IF ~IsSome(parsed) THEN Handled(BadRequest, <<>>)
      ELSE IF ~features THEN Handled(Unavailable, <<>>)
      ELSE
        LET output == execute(Unwrap(parsed).command, o)
        IN  IF output.tag = "Panic" THEN Panicked(output.ev)
            ELSE IF output.tag = "Ok"
              THEN Handled(Response(200, "shell", "",
                              to_string(output.stdout, output.stderr, output.exit_code), 0),
                           output.ev)
            ELSE Handled(Unavailable, output.ev)

\* handle_computer_preview
handle_computer_preview(body) ==
  LET parsed == DecodeComputerRequest(body)
  IN  IF IsSome(parsed)
        THEN Handled(Response(200, "computer", "N actions", <<>>,
                              Len(Unwrap(parsed).actions)), <<>>)
        ELSE Handled(BadRequest, <<>>)

(***************************************************************************)
(* autopilot/input.rs : the action executor                                *)
(***************************************************************************)
\* char/str::to_uppercase on the ASCII range
to_uppercase_char(c) ==
  IF \E i \in 1..Len(LowerChars) : LowerChars[i] = c
    THEN UpperChars[CHOOSE i \in 1..Len(LowerChars) : LowerChars[i] = c]
    ELSE c

to_uppercase(s) == [i \in 1..Len(s) |-> to_uppercase_char(s[i])]

\* is_modifier
is_modifier(key) ==
  to_uppercase(key) \in {<<"C", "M", "D">>, <<"C", "O", "M", "M", "A", "N", "D">>, <<"M", "E", "T", "A">>, <<"C", "T", "R", "L">>, <<"C", "O", "N", "T", "R", "O", "L">>, <<"A", "L", "T">>, <<"O", "P", "T", "I", "O", "N">>, <<"S", "H", "I", "F", "T">>}

\* map_key: Some(enigo key) or None
map_key(key) ==
  LET k == to_uppercase(key)
  IN  IF k \in {<<"C", "M", "D">>, <<"C", "O", "M", "M", "A", "N", "D">>, <<"M", "E", "T", "A">>} THEN Some("Meta")
      ELSE IF k \in {<<"C", "T", "R", "L">>, <<"C", "O", "N", "T", "R", "O", "L">>} THEN Some("Control")
      ELSE IF k \in {<<"A", "L", "T">>, <<"O", "P", "T", "I", "O", "N">>} THEN Some("Alt")
      ELSE IF k = <<"S", "H", "I", "F", "T">> THEN Some("Shift")
      ELSE IF k \in {<<"E", "N", "T", "E", "R">>, <<"R", "E", "T", "U", "R", "N">>} THEN Some("Return")
      ELSE IF k = <<"T", "A", "B">> THEN Some("Tab")
      ELSE IF k \in {<<"E", "S", "C">>, <<"E", "S", "C", "A", "P", "E">>} THEN Some("Escape")
      ELSE IF k = <<"B", "A", "C", "K", "S", "P", "A", "C", "E">> THEN Some("Backspace")
      ELSE IF k = <<"D", "E", "L", "E", "T", "E">> THEN Some("Delete")
      ELSE IF k = <<"S", "P", "A", "C", "E">> THEN Some("Space")
      ELSE IF k \in {<<"U", "P">>, <<"A", "R", "R", "O", "W", "_", "U", "P">>} THEN Some("UpArrow")
      ELSE IF k \in {<<"D", "O", "W", "N">>, <<"A", "R", "R", "O", "W", "_", "D", "O", "W", "N">>} THEN Some("DownArrow")
      ELSE IF k \in {<<"L", "E", "F", "T">>, <<"A", "R", "R", "O", "W", "_", "L", "E", "F", "T">>} THEN Some("LeftArrow")
      ELSE IF k \in {<<"R", "I", "G", "H", "T">>, <<"A", "R", "R", "O", "W", "_", "R", "I", "G", "H", "T">>} THEN Some("RightArrow")
      ELSE IF Len(key) = 1 THEN Some("Unicode:" \o key[1])
      ELSE None

(***************************************************************************)
(* f32 arithmetic, as map_coords and capture_screen use it.                *)
(*                                                                         *)
(* A finite f32 is [s, m, e] with value s * m * 2^e, s in {1, -1} and      *)
(* either m = 0 or 2^23 <= m < 2^24 (24 significant bits). Every operation *)
(* rounds its exact result to nearest, ties to even, as IEEE 754 does.     *)
(* Subnormals, infinities and NaN are out of reach of the operands used    *)
(* here (integers below 2^31 in magnitude, non-zero divisors). Products    *)
(* of two mantissas are formed from 12-bit halves so that no intermediate  *)
(* value needs more than 31 bits.                                          *)
(***************************************************************************)
F32_MANTISSA_MIN == 8388608     \* 2^23

F32_MANTISSA_END == 16777216    \* 2^24

HALF_WORD == 4096               \* 2^12

I32_MAX == 2147483647

RECURSIVE Pow2(_)
Pow2(n) == IF n = 0 THEN 1 ELSE 2 * Pow2(n - 1)

F32Zero == [s |-> 1, m |-> 0, e |-> 0]

\* Round the mantissa m, followed by the fraction low/den (0 <= low < den)
\* and, when `sticky`, by further non-zero bits: nearest, ties to even.
F32Round(s, m, e, low, den, sticky) ==
  LET up == \/ 2 * low > den
            \/ 2 * low = den /\ (sticky \/ m % 2 = 1)
      m1 == IF up THEN m + 1 ELSE m
  IN  IF m1 = F32_MANTISSA_END
        THEN [s |-> s, m |-> F32_MANTISSA_MIN, e |-> e + 1]
        ELSE [s |-> s, m |-> m1, e |-> e]

RECURSIVE F32Normalize(_, _, _)
\* n > 0 below 2^24, shifted left until it has 24 significant bits
F32Normalize(s, n, e) ==
  IF n >= F32_MANTISSA_MIN THEN [s |-> s, m |-> n, e |-> e]
  ELSE F32Normalize(s, 2 * n, e - 1)

RECURSIVE BitLen(_)
BitLen(n) == IF n = 0 THEN 0 ELSE 1 + BitLen(n \div 2)

\* `n as f32` for an integer n (i32, or u32 below 2^31)
as_f32(n) ==
  LET s == IF n < 0 THEN 0 - 1 ELSE 1
      a == IF n < 0 THEN 0 - n ELSE n
  IN  IF a = 0 THEN F32Zero
      ELSE IF a < F32_MANTISSA_END THEN F32Normalize(s, a, 0)
      ELSE LET d == BitLen(a) - 24
           IN  F32Round(s, a \div Pow2(d), d, a % Pow2(d), Pow2(d), FALSE)

RECURSIVE LongDiv(_, _, _, _)
\* `steps` further bits of the quotient q followed by remainder r of a
\* division by d: <<quotient, remainder>>
LongDiv(q, r, d, steps) ==
  IF steps = 0 THEN <<q, r>>
  ELSE IF 2 * r >= d THEN LongDiv(2 * q + 1, 2 * r - d, d, steps - 1)
  ELSE LongDiv(2 * q, 2 * r, d, steps - 1)

\* a / b in f32, b # 0
f32_div(a, b) ==
  IF a.m = 0 THEN F32Zero
  ELSE LET qr == LongDiv(a.m \div b.m, a.m % b.m, b.m, 25)  \* floor(a.m * 2^25 / b.m)
           q == qr[1]
           sticky == qr[2] # 0
           e == a.e - b.e - 25
           s == a.s * b.s
       IN  IF q >= 2 * F32_MANTISSA_END
             THEN F32Round(s, q \div 4, e + 2, q % 4, 4, sticky)
             ELSE F32Round(s, q \div 2, e + 1, q % 2, 2, sticky)

\* a * b in f32
f32_mul(a, b) ==
  IF a.m = 0 \/ b.m = 0 THEN F32Zero
  ELSE LET ah == a.m \div HALF_WORD
           al == a.m % HALF_WORD
           bh == b.m \div HALF_WORD
           bl == b.m % HALF_WORD
           mid == ah * bl + al * bh
           l0 == al * bl + (mid % HALF_WORD) * HALF_WORD
           lo == l0 % F32_MANTISSA_END
           hi == ah * bh + mid \div HALF_WORD + l0 \div F32_MANTISSA_END
           \* the product of the mantissas is hi * 2^24 + lo
           s == a.s * b.s
           e == a.e + b.e
       IN  IF hi >= F32_MANTISSA_MIN
             THEN F32Round(s, hi, e + 24, lo, F32_MANTISSA_END, FALSE)
             ELSE F32Round(s, 2 * hi + lo \div F32_MANTISSA_MIN, e + 23,
                           lo % F32_MANTISSA_MIN, F32_MANTISSA_MIN, FALSE)

\* The magnitude of an f32 as an integer, saturated at i32::MAX: the part in
\* front of the binary point plus `carry` when the rest is at least `part`
\* halves (part = 1: f32::round, ties away from zero; part = 2: never, the
\* cast `as` drops the fraction).
F32Magnitude(a, part) ==
  IF a.m = 0 THEN 0
  ELSE IF a.e >= 8 THEN I32_MAX
  ELSE IF a.e >= 0
    THEN (IF a.m > I32_MAX \div Pow2(a.e) THEN I32_MAX ELSE a.m * Pow2(a.e))
  ELSE IF 0 - a.e >= 25 THEN 0
  ELSE LET p == Pow2(0 - a.e)
       IN  (a.m \div p) + (IF part = 1 /\ 2 * (a.m % p) >= p THEN 1 ELSE 0)

\* `a.round() as i32`
f32_round_as_i32(a) == a.s * F32Magnitude(a, 1)

\* `a as u32`: toward zero, negative values saturate at 0
f32_as_u32(a) == IF a.s < 0 THEN 0 ELSE F32Magnitude(a, 2)

\* AutopilotExecutor::map_coords
map_coords(x, y, image_width, image_height, screen_width, screen_height) ==
  IF image_width = 0 \/ image_height = 0 THEN <<x, y>>
  ELSE \* sx and sy are values, each computed once: they are bound as the
       \* elements of one-element sets
       CHOOSE p \in
         { <<f32_round_as_i32(sx), f32_round_as_i32(sy)>> :
             sx \in { f32_mul(qx, as_f32(screen_width)) :
                        qx \in {f32_div(as_f32(x), as_f32(image_width))} },
             sy \in { f32_mul(qy, as_f32(screen_height)) :
                        qy \in {f32_div(as_f32(y), as_f32(image_height))} } } : TRUE

RECURSIVE Partition(_, _, _)
\* press_keys, lines 126-135: the modifiers in list order and the main key
Partition(keys, modifiers, main_key) ==
  IF keys = <<>> THEN [modifiers |-> modifiers, main_key |-> main_key]
  ELSE LET key == Head(keys)
           mapped == map_key(key)
       IN  IF IsSome(mapped)
             THEN IF is_modifier(key)
                    THEN Partition(Tail(keys), Append(modifiers, Unwrap(mapped)), main_key)
                    ELSE Partition(Tail(keys), modifiers, mapped)
             ELSE Partition(Tail(keys), modifiers, main_key)

\* modifiers.iter().rev()
\* Mutant: the modifiers are released in the order they were pressed.
InPressOrder(s) == s

Reverse(s) == [i \in 1..Len(s) |-> s[Len(s) + 1 - i]]

\* AutopilotExecutor::press_keys: the enigo calls it makes, in order
\* Mutant: every recognised non-modifier key of the list is clicked.
press_keys_every_main(keys) ==
  LET p == Partition(keys, <<>>, None)
      known(k) == IsSome(map_key(k)) /\ ~is_modifier(k)
      mains == SelectSeq(keys, known)
  IN  [i \in 1..Len(p.modifiers) |-> Ev("key", p.modifiers[i] \o ":Press")]
      \o [i \in 1..Len(mains) |-> Ev("key", Unwrap(map_key(mains[i])) \o ":Click")]
      \o [i \in 1..Len(p.modifiers) |->
            Ev("key", Reverse(p.modifiers)[i] \o ":Release")]

press_keys(keys) ==
  IF keys = <<>> THEN <<>>
  ELSE LET p == Partition(keys, <<>>, None)
       IN  [i \in 1..Len(p.modifiers) |-> Ev("key", p.modifiers[i] \o ":Press")]
           \o (IF IsSome(p.main_key)
                 THEN <<Ev("key", Unwrap(p.main_key) \o ":Click")>> ELSE <<>>)
           \o [i \in 1..Len(p.modifiers) |->
                 Ev("key", Reverse(p.modifiers)[i] \o ":Release")]

MoveTo(x, y, iw, ih, sw, sh) ==
  LET m == map_coords(x, y, iw, ih, sw, sh) IN <<"move_mouse", "Abs", m[1], m[2]>>

\* the optional move in front of click and double_click
\* Mutant: a missing coordinate counts as 0 when the other one is present.
OptionalMoveDefaulting(action, iw, ih, sw, sh) ==
  IF IsSome(action.x) \/ IsSome(action.y)
    THEN <<MoveTo(IF IsSome(action.x) THEN Unwrap(action.x) ELSE 0,
                  IF IsSome(action.y) THEN Unwrap(action.y) ELSE 0, iw, ih, sw, sh)>>
    ELSE <<>>

OptionalMove(action, iw, ih, sw, sh) ==
  IF IsSome(action.x) /\ IsSome(action.y)
    THEN <<MoveTo(Unwrap(action.x), Unwrap(action.y), iw, ih, sw, sh)>>
    ELSE <<>>

\* lines 57-61: the button of a click for the optional selector
\* Mutant: every click is a click of the left button.
click_button_left(selector) == "Left"

click_button(selector) ==
  IF selector = Some("right") THEN "Right"
  ELSE IF selector = Some("middle") THEN "Middle"
  ELSE "Left"

\* lines 79-82: the four enigo calls of a drag from `from` to `to`
\* Mutant: the button is pressed before the pointer is at the start point.
drag_calls_press_first(from, to) ==
  <<Ev("button", "Left:Press"), from, to, Ev("button", "Left:Release")>>

drag_calls(from, to) ==
  <<from, Ev("button", "Left:Press"), to, Ev("button", "Left:Release")>>

\* lines 99-102: the scroll call for the optional delta dy
\* Mutant: the scroll call is made for a zero delta too.
scroll_calls_always(dy) ==
  <<<<"scroll", "Vertical", IF IsSome(dy) THEN Unwrap(dy) ELSE 0, 0>>>>

scroll_calls(dy) ==
  LET amount == IF IsSome(dy) THEN Unwrap(dy) ELSE 0
  IN  IF amount # 0 THEN <<<<"scroll", "Vertical", amount, 0>>>> ELSE <<>>

\* The arms of the match in execute.
\* Mutant: an arm for one more type tag, which does nothing and succeeds.
KnownActionsAndHover ==
  {"move_mouse", "click", "double_click", "drag", "type", "key", "scroll", "hover"}

KnownActions ==
  {"move_mouse", "click", "double_click", "drag", "type", "key", "scroll"}

\* The match of AutopilotExecutor::execute: the enigo calls the action makes
\* when every call succeeds, in order.
ActionCalls(action, iw, ih, sw, sh) ==
  LET ty == Unwrap(action.type)
  IN  IF ty = "move_mouse" THEN OptionalMove(action, iw, ih, sw, sh)
      ELSE IF ty = "click"
        THEN OptionalMove(action, iw, ih, sw, sh)
             \o <<Ev("button", click_button(action.button) \o ":Click")>>
      ELSE IF ty = "double_click"
        THEN OptionalMove(action, iw, ih, sw, sh)
             \o <<Ev("button", "Left:Click"), Ev("button", "Left:Click")>>
      ELSE IF ty = "drag"
        THEN IF /\ IsSome(action.start_x) /\ IsSome(action.start_y)
                /\ IsSome(action.end_x) /\ IsSome(action.end_y)
               THEN drag_calls(
                      MoveTo(Unwrap(action.start_x), Unwrap(action.start_y), iw, ih, sw, sh),
                      MoveTo(Unwrap(action.end_x), Unwrap(action.end_y), iw, ih, sw, sh))
               ELSE <<>>
      ELSE IF ty = "type"
        THEN IF IsSome(action.text) THEN <<Ev("text", Unwrap(action.text))>> ELSE <<>>
      ELSE IF ty = "key"
        THEN IF IsSome(action.keys) THEN press_keys(Unwrap(action.keys)) ELSE <<>>
      ELSE IF ty = "scroll" THEN scroll_calls(action.dy)
      ELSE <<>>

\* `.map_err(|e| e.to_string())?` after each enigo call: the calls made when
\* call number fail_at returns an error, the failed call marked as os_error
\* Mutant: the calls after the failed one are still made.
calls_past_error(os_calls, fail_at) ==
  SubSeq(os_calls, 1, fail_at - 1) \o <<Ev("os_error", os_calls[fail_at][1])>>
  \o SubSeq(os_calls, fail_at + 1, Len(os_calls))

calls_until_error(os_calls, fail_at) ==
  SubSeq(os_calls, 1, fail_at - 1) \o <<Ev("os_error", os_calls[fail_at][1])>>

\* AutopilotExecutor::execute for one outcome of the host: whether Enigo::new
\* succeeds, and which enigo call (0: none) returns an error. Every call is
\* followed by `?`, so the first error ends the action.
autopilot_execute(action, iw, ih, sw, sh, enigo_ok, fail_at) ==
  LET os_calls == ActionCalls(action, iw, ih, sw, sh)
  IN  IF ~enigo_ok
        THEN [ok |-> FALSE, text |-> "enigo: cannot create", ev |-> <<Ev("enigo_new", "Err")>>]
      ELSE IF Unwrap(action.type) \notin KnownActions
        THEN [ok |-> FALSE, text |-> "unknown action", ev |-> <<Ev("enigo_new", "Ok")>>]
      ELSE IF fail_at \in 1..Len(os_calls)
        THEN [ok |-> FALSE, text |-> "enigo: input error",
              ev |-> <<Ev("enigo_new", "Ok")>> \o calls_until_error(os_calls, fail_at)]
      ELSE [ok |-> TRUE, text |-> Unwrap(action.type),
            ev |-> <<Ev("enigo_new", "Ok")>> \o os_calls]

(***************************************************************************)
(* autopilot/screen.rs and autopilot/permissions.rs                        *)
(***************************************************************************)
DEFAULT_MAX_WIDTH == 1280

DEFAULT_QUALITY == 60

\* The host as the bridge sees it: what Monitor::all() yields, whether
\* Enigo::new succeeds (the accessibility permission), the primary display.
Hosts ==
  [monitor : {"ok", "error"}, enigo : BOOLEAN, sw : {1920}, sh : {1080}]

CaptureFailures == {"no", "capture_image", "encode"}

\* capture_screen(max_width, quality) on host h; `fail` is the step of the
\* capture that the host lets fail. Ok carries the encoded and the physical
\* dimensions.
capture_screen(max_width, quality, h, fail) ==
  IF h.monitor # "ok"
    THEN [ok |-> FALSE, text |-> "xcap: monitors unavailable", width |-> 0, height |-> 0,
          screen_width |-> 0, screen_height |-> 0, ev |-> <<Ev("monitor", h.monitor)>>]
  ELSE IF fail = "capture_image"
    THEN [ok |-> FALSE, text |-> "xcap: capture failed", width |-> 0, height |-> 0,
          screen_width |-> 0, screen_height |-> 0, ev |-> <<Ev("monitor", "ok")>>]
  ELSE
    \* lines 29-30: target_height is computed in f32 and cast to u32
    LET target_width == IF h.sw > max_width THEN max_width ELSE h.sw
        target_height ==
          f32_as_u32(f32_mul(as_f32(h.sh),
                             f32_div(as_f32(target_width), as_f32(h.sw))))
        ev == <<Ev("monitor", "ok"), Ev("capture", "capture_image")>>
    IN  IF fail = "encode"
          THEN [ok |-> FALSE, text |-> "jpeg: encode failed", width |-> 0, height |-> 0,
                screen_width |-> 0, screen_height |-> 0, ev |-> ev]
          ELSE [ok |-> TRUE, text |-> "jpeg", width |-> target_width,
                height |-> target_height, screen_width |-> h.sw,
                screen_height |-> h.sh, ev |-> ev]

\* check_permissions: screen_recording is Monitor::all().is_ok(),
\* accessibility is Enigo::new().is_ok().
\* Mutant: the status of the query answered last is returned again.
check_permissions_cached(h) ==
  IF sent # <<>> /\ sent[Len(sent)].resp.kind = "permissions"
    THEN [screen_recording |-> sent[Len(sent)].resp.output[1],
          accessibility |-> sent[Len(sent)].resp.output[2], ev |-> <<>>]
    ELSE [screen_recording |-> h.monitor # "error", accessibility |-> h.enigo,
          ev |-> <<Ev("monitor", h.monitor), Ev("enigo_new", IF h.enigo THEN "Ok" ELSE "Err")>>]

check_permissions(h) ==
  [screen_recording |-> h.monitor # "error", accessibility |-> h.enigo,
   ev |-> <<Ev("monitor", h.monitor), Ev("enigo_new", IF h.enigo THEN "Ok" ELSE "Err")>>]

\* AutopilotExecutor::new: the primary monitor and its size, or an error
autopilot_new(h) == h.monitor = "ok"

(***************************************************************************)
(* bridge.rs : the remaining handlers                                      *)
(***************************************************************************)
\* handle_computer_execute. ComputerControl lives outside these sources: it
\* may fail to initialise, and each perform_action succeeds or fails.
handle_computer_execute(body, features, control_ok, results) ==
  LET parsed == DecodeComputerRequest(body)
  IN  IF ~IsSome(parsed) THEN Handled(BadRequest, <<>>)
      ELSE IF ~features \/ ~control_ok THEN Handled(Unavailable, <<>>)
      ELSE LET actions == Unwrap(parsed).actions
           IN  Handled(Response(200, "computer", "N actions",
                                [i \in 1..Len(actions) |->
                                   IF results[i] THEN "" ELSE "error: "],
                                Len(actions)),
                       [i \in 1..Len(actions) |-> Ev("computer", actions[i])])

\* handle_autopilot_capture
handle_autopilot_capture(body, features, h, fail) ==
  LET parsed == DecodeCaptureRequest(body)
  IN  IF ~IsSome(parsed) THEN Handled(BadRequest, <<>>)
      ELSE IF ~features THEN Handled(Unavailable, <<>>)
      ELSE
        LET req == Unwrap(parsed)
            max_width == IF IsSome(req.max_width) THEN Unwrap(req.max_width)
                         ELSE DEFAULT_MAX_WIDTH
            quality == IF IsSome(req.quality) THEN Unwrap(req.quality)
                       ELSE DEFAULT_QUALITY
            c == capture_screen(max_width, quality, h, fail)
        IN  IF c.ok
              THEN Handled(Response(200, "capture", "jpeg",
                             <<c.width, c.height, c.screen_width, c.screen_height>>, 0),
                           c.ev)
              ELSE Handled(Response(500, "text", c.text, <<>>, 0), c.ev)

\* handle_autopilot_act
handle_autopilot_act(body, features, h, fail_at) ==
  LET parsed == DecodeActRequest(body)
  IN  IF ~IsSome(parsed) THEN Handled(BadRequest, <<>>)
      ELSE IF ~features THEN Handled(Unavailable, <<>>)
      ELSE IF ~autopilot_new(h) THEN Handled(Unavailable, <<Ev("monitor", h.monitor)>>)
      ELSE
        LET req == Unwrap(parsed)
            r == autopilot_execute(req.action, req.image_width, req.image_height,
                                   h.sw, h.sh, h.enigo, fail_at)
            ev == <<Ev("monitor", h.monitor)>> \o r.ev
        IN  IF r.ok THEN Handled(Response(200, "act", r.text, <<>>, 0), ev)
            ELSE Handled(Response(500, "text", r.text, <<>>, 0), ev)

\* handle_autopilot_permissions
handle_autopilot_permissions(features, h) ==
  IF features
    THEN LET status == check_permissions(h)
         IN  Handled(Response(200, "permissions",
                       IF status.screen_recording /\ status.accessibility
                         THEN "permissions ok"
                         ELSE "permissions needed",
                       <<status.screen_recording, status.accessibility>>, 0),
                     status.ev)
    ELSE Handled(Unavailable, <<>>)

\* start_bridge, lines 82-92: the route match on (method, path)
Route(method, path) ==
  IF method = "POST" /\ path = "/computer/preview" THEN "computer_preview"
  ELSE IF method = "POST" /\ path = "/computer/execute" THEN "computer_execute"
  ELSE IF method = "POST" /\ path = "/shell/preview" THEN "shell_preview"
  ELSE IF method = "POST" /\ path = "/shell/execute" THEN "shell_execute"
  ELSE IF method = "POST" /\ path = "/autopilot/capture" THEN "autopilot_capture"
  ELSE IF method = "POST" /\ path = "/autopilot/act" THEN "autopilot_act"
  ELSE IF method = "GET" /\ path = "/autopilot/permissions" THEN "autopilot_permissions"
  ELSE "not_found"

(***************************************************************************)
(* The requests the orchestrator may post.                                 *)
(***************************************************************************)
NoAction ==
  [type |-> None, x |-> None, y |-> None, button |-> None, start_x |-> None,
   start_y |-> None, end_x |-> None, end_y |-> None, text |-> None,
   keys |-> None, dy |-> None]

Act(ty) == [NoAction EXCEPT !.type = Some(ty)]

KeyCombo == << <<"S", "H", "I", "F", "T">>, <<"c", "m", "d">>, <<"A">> >>

ServerActions ==
  { [Act("move_mouse") EXCEPT !.x = Some(640), !.y = Some(360)],
    [Act("click") EXCEPT !.button = Some("right")],
    [Act("drag") EXCEPT !.start_x = Some(0), !.start_y = Some(0),
                        !.end_x = Some(100), !.end_y = Some(50)],
    [Act("key") EXCEPT !.keys = Some(KeyCombo)],
    [Act("scroll") EXCEPT !.dy = Some(0)],
    Act("hover") }

Req(method, path, body) == [method |-> method, path |-> path, body |-> body]

ShellBodies == {GarbageBody, EmptyObject} \cup {ShellBody(c) : c \in ShellCommands}

ComputerBodies ==
  {GarbageBody, EmptyObject, ComputerBody(<<>>), ComputerBody(<<"left_click", "type">>)}

CaptureBodies ==
  {GarbageBody, EmptyObject, CaptureBody(Some(0), None), CaptureBody(Some(4000), Some(80))}

ActBodies ==
  {GarbageBody, EmptyObject, ActBody(Act("click"), Some(1280), None),
   ActBody(NoAction, Some(1280), Some(720))}
  \cup {ActBody(a, Some(1280), Some(720)) : a \in ServerActions}

Requests ==
  {Req("POST", "/shell/preview", b) : b \in ShellBodies}
  \cup {Req("POST", "/shell/execute", b) : b \in ShellBodies}
  \cup {Req("POST", "/computer/preview", b) : b \in ComputerBodies}
  \cup {Req("POST", "/computer/execute", b) : b \in ComputerBodies}
  \cup {Req("POST", "/autopilot/capture", b) : b \in CaptureBodies}
  \cup {Req("POST", "/autopilot/act", b) : b \in ActBodies}
  \cup {Req("GET", "/autopilot/permissions", GarbageBody)}
  \cup {Req("GET", "/shell/execute", ShellBody(CmdPlain)),
        Req("POST", "/autopilot/permissions", EmptyObject),
        Req("POST", "/shell/run", ShellBody(CmdBlocked)),
        Req("PUT", "/autopilot/act", GarbageBody)}

(***************************************************************************)
(* bridge.rs : start_bridge, the accept loop on the bridge thread          *)
(***************************************************************************)
MaxRequests == 2

\* Every outcome the handler of request rq can have on host h, over what the
\* host may do during the call.
HandlerOutcomes(rq, features, h) ==
  LET route == Route(rq.method, rq.path)
      body == rq.body
  IN  IF route = "computer_preview" THEN {handle_computer_preview(body)}
      ELSE IF route = "computer_execute"
        THEN LET parsed == DecodeComputerRequest(body)
                 n == IF IsSome(parsed) THEN Len(Unwrap(parsed).actions) ELSE 0
             IN  {handle_computer_execute(body, features, control_ok, results) :
                    control_ok \in BOOLEAN, results \in [1..n -> BOOLEAN]}
      ELSE IF route = "shell_preview" THEN {handle_shell_preview(body)}
      ELSE IF route = "shell_execute"
        THEN {handle_shell_execute(body, features, o) : o \in SpawnOutcomes}
      ELSE IF route = "autopilot_capture"
        THEN {handle_autopilot_capture(body, features, h, fail) : fail \in CaptureFailures}
      ELSE IF route = "autopilot_act"
        THEN LET parsed == DecodeActRequest(body)
                 n == IF IsSome(parsed)
                        THEN Len(ActionCalls(Unwrap(parsed).action,
                                             Unwrap(parsed).image_width,
                                             Unwrap(parsed).image_height, h.sw, h.sh))
                        ELSE 0
             IN  {handle_autopilot_act(body, features, h, fail_at) : fail_at \in 0..n}
      ELSE IF route = "autopilot_permissions"
        THEN {handle_autopilot_permissions(features, h)}
      ELSE {Handled(NotFound, <<>>)}

\* One entry of the bridge's log: a recorded call tagged with its request.
Tagged(rid, ev) == [i \in 1..Len(ev) |-> <<rid>> \o ev[i]]

\* The log and the list of sent responses are the observer's record, not
\* state of the bridge. They keep the request in hand and the one answered
\* before it; what is older is dropped when a request is taken.
RECURSIVE Since(_, _)
Since(entries, rid) ==
  IF entries = <<>> THEN <<>>
  ELSE IF Head(entries)[1] >= rid THEN entries
  ELSE Since(Tail(entries), rid)

LastOf(s) == IF s = <<>> THEN <<>> ELSE <<s[Len(s)]>>

\* The loop takes the next request only from the top of the `for` body.
\* Mutant: requests are taken while an earlier one is still being handled.
LoopTakesAnytime == srv \in {"accept", "handle", "respond"}

LoopAtTop == srv = "accept"

\* A client's request reaches the listener and waits to be taken. What it
\* asks has no effect before the loop takes it, so the waiting entry is the
\* request's id alone and its content is drawn when it is taken.
Arrive ==
  /\ arrived < MaxRequests
  /\ arrived' = arrived + 1
  /\ inbox' = Append(inbox, arrived + 1)
  /\ UNCHANGED <<desktopSkills, host, srv, cur, resp, log, sent, gateVars, syncVars, unitVars>>

\* server.incoming_requests() yields the next request; its body is read.
Accept(rq) ==
  /\ LoopAtTop
  /\ inbox # <<>>
  /\ cur' = Some([rid |-> Head(inbox), rq |-> rq])
  /\ inbox' = Tail(inbox)
  /\ srv' = "handle"
  /\ log' = Append(Since(log, Head(inbox) - 1), <<Head(inbox), "accept", "", 0, 0>>)
  /\ sent' = LastOf(sent)
  /\ UNCHANGED <<desktopSkills, host, resp, arrived, gateVars, syncVars, unitVars>>

\* The route match runs the handler to its end. A panic inside the handler
\* unwinds the closure of thread::spawn: the bridge thread is gone.
Handle ==
  /\ srv = "handle"
  /\ LET rid == Unwrap(cur).rid
     IN  \E h \in HandlerOutcomes(Unwrap(cur).rq, desktopSkills, host) :
           IF h.panic
             THEN /\ srv' = "dead"
                  /\ log' = log \o Tagged(rid, h.ev) \o <<<<rid, "panic", "", 0, 0>>>>
                  /\ UNCHANGED resp
             ELSE /\ srv' = "respond"
                  /\ log' = log \o Tagged(rid, h.ev)
                  /\ resp' = Some(h.resp)
  /\ UNCHANGED <<desktopSkills, host, inbox, cur, sent, arrived, gateVars, syncVars, unitVars>>

\* request.respond(response); the loop returns to its top.
Respond ==
  /\ srv = "respond"
  /\ sent' = Append(sent, [rid |-> Unwrap(cur).rid, rq |-> Unwrap(cur).rq,
                           resp |-> Unwrap(resp)])
  /\ log' = Append(log, <<Unwrap(cur).rid, "respond", "", Unwrap(resp).status, 0>>)
  /\ cur' = None
  /\ resp' = None
  /\ srv' = "accept"
  /\ UNCHANGED <<desktopSkills, host, inbox, arrived, gateVars, syncVars, unitVars>>

\* The user grants or revokes an OS permission, or a display (dis)appears.
HostChange(h) ==
  /\ h # host
  /\ host' = h
  /\ UNCHANGED <<desktopSkills, inbox, srv, cur, resp, log, sent, arrived, gateVars, syncVars, unitVars>>

BridgeInit ==
  /\ desktopSkills \in BOOLEAN
  /\ host \in Hosts
  /\ inbox = <<>>
  /\ srv = "accept"
  /\ cur = None
  /\ resp = None
  /\ log = <<>>
  /\ sent = <<>>
  /\ arrived = 0

BridgeNext ==
  \/ Arrive
  \/ \E rq \in Requests : Accept(rq)
  \/ Handle
  \/ Respond
  \/ \E h \in Hosts : HostChange(h)

(***************************************************************************)
(* The components called on their own: the action executor, the screen     *)
(* capture and the shell's output path, each over a set of arguments wider *)
(* than the bridge's requests above.                                       *)
(***************************************************************************)
MaxKeys == 3

KeyNames ==
  { <<"S", "H", "I", "F", "T">>, <<"c", "m", "d">>, <<"C", "t", "r", "l">>,
    <<"A">>, <<"b">>, <<"F", "1", "3">>, <<"e", "n", "t", "e", "r">> }

\* The key lists of a key action, up to MaxKeys long
KeyLists == UNION {[1..n -> KeyNames] : n \in 0..MaxKeys}

\* Image-space points, image sizes and physical screen sizes
ImagePoints == {<<0, 0>>, <<21, 133>>, <<640, 360>>, <<1280, 720>>, <<0 - 5, 7>>}

ImageSizes == {<<1280, 720>>, <<0, 720>>, <<1280, 0>>, <<1000, 1000>>}

Screens == {<<1920, 1080>>, <<2560, 1440>>}

\* The optional x and y of an action: both, one of them, or neither
OptionalPoints ==
  {<<None, None>>, <<Some(7), None>>}
  \cup {<<Some(p[1]), Some(p[2])>> : p \in ImagePoints}

PointerActions ==
  {[Act(ty) EXCEPT !.x = p[1], !.y = p[2]] :
     ty \in {"move_mouse", "double_click"}, p \in OptionalPoints}
  \cup {[Act("click") EXCEPT !.x = p[1], !.y = p[2], !.button = b] :
          p \in OptionalPoints,
          b \in {None, Some("right"), Some("middle"), Some("left"), Some("other")}}

DragActions ==
  {[Act("drag") EXCEPT !.start_x = Some(p[1]), !.start_y = Some(p[2]),
                       !.end_x = Some(q[1]), !.end_y = Some(q[2])] :
     p \in ImagePoints, q \in ImagePoints}
  \cup {Act("drag"),
        [Act("drag") EXCEPT !.start_x = Some(0), !.start_y = Some(0), !.end_x = Some(9)]}

KeyActions ==
  {Act("key")} \cup {[Act("key") EXCEPT !.keys = Some(ks)] : ks \in KeyLists}
  \cup {[Act("key") EXCEPT !.keys =
           Some(<< <<"C", "t", "r", "l">>, <<"F", "1", "3">>, <<"A">>,
                   <<"S", "H", "I", "F", "T">>, <<"b">> >>)]}

OtherActions ==
  {[Act("scroll") EXCEPT !.dy = d] : d \in {None, Some(0), Some(3), Some(0 - 2)}}
  \cup {Act("type"), [Act("type") EXCEPT !.text = Some("hi")]}
  \cup {[Act(ty) EXCEPT !.x = p[1], !.y = p[2], !.dy = d, !.keys = k] :
          ty \in {"hover", "CLICK", "", "scroll_up"},
          p \in {<<None, None>>, <<Some(640), Some(360)>>},
          d \in {None, Some(3)}, k \in {None, Some(KeyCombo)}}

\* The optional fields of AutopilotAction
FieldNames ==
  {"x", "y", "button", "start_x", "start_y", "end_x", "end_y", "text", "keys", "dy"}

\* An action of type ty that carries every field
FullAction(ty) ==
  [type |-> Some(ty), x |-> Some(640), y |-> Some(360), button |-> Some("middle"),
   start_x |-> Some(21), start_y |-> Some(133), end_x |-> Some(1280),
   end_y |-> Some(720), text |-> Some("hi"), keys |-> Some(KeyCombo), dy |-> Some(3)]

\* Actions of every known type with all fields present, or all but one
FullActions ==
  {FullAction(ty) : ty \in KnownActions}
  \cup {[FullAction(ty) EXCEPT ![f] = None] : ty \in KnownActions, f \in FieldNames}

\* One call of AutopilotExecutor::execute: the action, the image size of the
\* request, the screen size the executor holds, and what the host does
\* during the call (Enigo::new succeeds or not; the enigo call that fails).
ActCalls(acts, images, screens) ==
  UNION {{[action |-> a, iw |-> i[1], ih |-> i[2], sw |-> s[1], sh |-> s[2],
           enigo_ok |-> ok, fail_at |-> f] :
            ok \in BOOLEAN,
            f \in 0..Len(ActionCalls(a, i[1], i[2], s[1], s[2]))} :
           a \in acts, i \in images, s \in screens}

ActInputs ==
  ActCalls(PointerActions \cup DragActions, ImageSizes, Screens)
  \cup ActCalls(KeyActions \cup OtherActions \cup FullActions,
               {<<1280, 720>>}, {<<1920, 1080>>})

ActInit == actIn \in {Some(c) : c \in ActInputs} /\ actOut = None

ActIdle == actIn = None /\ actOut = None

\* executor.execute(&req.action, req.image_width, req.image_height)
ActExecute ==
  /\ IsSome(actIn)
  /\ actOut = None
  /\ LET c == Unwrap(actIn)
     IN  actOut' = Some(autopilot_execute(c.action, c.iw, c.ih, c.sw, c.sh,
                                          c.enigo_ok, c.fail_at))
  /\ UNCHANGED <<actIn, capIn, capOut, outIn, outOut, gateVars, syncVars, bridgeVars>>

\* capture_screen: the max_width of the request and the primary display
CaptureHosts ==
  {[monitor |-> m, enigo |-> TRUE, sw |-> s[1], sh |-> s[2]] :
     m \in {"ok", "error"},
     s \in {<<1920, 1080>>, <<1366, 768>>, <<2560, 1440>>, <<1080, 1920>>}}

CapInputs ==
  [max_width : {0, 1, 2, 3, 640, 1000, 1280, 1919, 1920, 1921, 4000},
   quality : {DEFAULT_QUALITY}, h : CaptureHosts, fail : CaptureFailures]

CapInit == capIn \in {Some(c) : c \in CapInputs} /\ capOut = None

CapIdle == capIn = None /\ capOut = None

CaptureRun ==
  /\ IsSome(capIn)
  /\ capOut = None
  /\ LET c == Unwrap(capIn)
     IN  capOut' = Some(capture_screen(c.max_width, c.quality, c.h, c.fail))
  /\ UNCHANGED <<actIn, actOut, capIn, outIn, outOut, gateVars, syncVars, bridgeVars>>

\* What a launched subprocess may have written: ASCII and multi-byte text
\* around the two budgets.
UnitStreams ==
  { <<>>,
    <<<<"run", 1, 3>>>>,
    <<<<"run", 1, 2000>>>>,
    <<<<"run", 1, 2001>>>>,
    <<<<"run", 1, 5000>>>>,
    <<<<"run", 1, 5001>>>>,
    <<<<"run", 2, 1000>>>>,                      \* 1000 characters, 2000 bytes
    <<<<"run", 2, 2500>>>>,                      \* 2500 characters, 5000 bytes
    <<<<"run", 2, 3000>>>>,                      \* 3000 characters, 6000 bytes
    <<<<"run", 1, 4999>>, <<"run", 2, 1>>>>,     \* 5000 characters, 5001 bytes
    <<<<"run", 3, 700>>>> }                      \* 700 characters, 2100 bytes

OutInputs ==
  [launched : {TRUE}, stdout : UnitStreams, stderr : UnitStreams,
   code : {0, 1, 127, 0 - 1}]

OutInit == outIn \in {Some(o) : o \in OutInputs} /\ outOut = None

OutIdle == outIn = None /\ outOut = None

\* executor.execute(command) on an allowed command, then out.to_string()
\* (bridge.rs:165-167)
ShellOutput ==
  /\ IsSome(outIn)
  /\ outOut = None
  /\ LET r == execute(CmdPlain, Unwrap(outIn))
     IN  outOut' = Some([tag |-> r.tag, stdout |-> r.stdout, stderr |-> r.stderr,
                         exit_code |-> r.exit_code,
                         text |-> IF r.tag = "Ok"
                                    THEN to_string(r.stdout, r.stderr, r.exit_code)
                                    ELSE <<>>])
  /\ UNCHANGED <<actIn, actOut, capIn, capOut, outIn, gateVars, syncVars, bridgeVars>>

UnitIdle == ActIdle /\ CapIdle /\ OutIdle

(***************************************************************************)
(* Specifications.                                                         *)
(***************************************************************************)
vars == <<gateVars, syncVars, bridgeVars, unitVars>>

SyncIdle ==
  /\ platform = "macos"
  /\ tpc = [t \in Threads |-> "idle"]
  /\ ctx = [t \in Threads |-> EmptyCtx]
  /\ mainQ = <<>>
  /\ tramp = None
  /\ alive = [t \in Threads |-> TRUE]
  /\ calls = [t \in Threads |-> 0]
  /\ returned = <<>>

BridgeIdle ==
  /\ desktopSkills = TRUE
  /\ host = [monitor |-> "ok", enigo |-> TRUE, sw |-> 1920, sh |-> 1080]
  /\ inbox = <<>>
  /\ srv = "accept"
  /\ cur = None
  /\ resp = None
  /\ log = <<>>
  /\ sent = <<>>
  /\ arrived = 0

\* The bridge: the accept loop, its handlers and the host.
Init == BridgeInit /\ GateIdle /\ SyncIdle /\ UnitIdle

Next == BridgeNext

Spec == Init /\ [][Next]_vars

\* The policy gate over command texts.
InitGate == GateInit /\ SyncIdle /\ BridgeIdle /\ UnitIdle

NextGate == Classify

SpecGate == InitGate /\ [][NextGate]_vars

\* The main-queue dispatcher and the threads that call sync.
InitSync == SyncInit /\ GateIdle /\ BridgeIdle /\ UnitIdle

NextSync == SyncNext

SpecSync == InitSync /\ [][NextSync]_vars

\* The action executor over actions, image sizes and screens.
InitAct == ActInit /\ CapIdle /\ OutIdle /\ GateIdle /\ SyncIdle /\ BridgeIdle

NextAct == ActExecute

SpecAct == InitAct /\ [][NextAct]_vars

\* The screen capture over requested widths and displays.
InitCapture == CapInit /\ ActIdle /\ OutIdle /\ GateIdle /\ SyncIdle /\ BridgeIdle

NextCapture == CaptureRun

SpecCapture == InitCapture /\ [][NextCapture]_vars

\* The shell's output path over what the subprocess wrote.
InitOutput == OutInit /\ ActIdle /\ CapIdle /\ GateIdle /\ SyncIdle /\ BridgeIdle

NextOutput == ShellOutput

SpecOutput == InitOutput /\ [][NextOutput]_vars

(***************************************************************************)
(* Properties.                                                             *)
(***************************************************************************)
\* The command text contains some blocked-list pattern, letter case aside.
HasBlockedSubstring(c) ==
  \E i \in 1..Len(BLOCKED_PATTERNS) :
    contains(to_lowercase(c), to_lowercase(BLOCKED_PATTERNS[i]))

HasWarnSubstring(c) ==
  \E i \in 1..Len(WARN_PATTERNS) :
    contains(to_lowercase(c), to_lowercase(WARN_PATTERNS[i]))

\* The requests the loop has taken so far, each with its id.
Taken ==
  {[rid |-> sent[i].rid, rq |-> sent[i].rq] : i \in 1..Len(sent)}
  \cup (IF IsSome(cur) THEN {Unwrap(cur)} ELSE {})

\* The calls recorded for request rid, other than the loop's own two.
ComponentCalls(rid) ==
  {i \in 1..Len(log) : log[i][1] = rid /\ log[i][2] \notin {"accept", "respond"}}

Logged(rid, name, arg) ==
  \E i \in 1..Len(log) : log[i][1] = rid /\ log[i][2] = name /\ log[i][3] = arg

LoggedCall(rid, name) ==
  \E i \in 1..Len(log) : log[i][1] = rid /\ log[i][2] = name

\* A well-formed shell-execute request, in a build with the shell compiled in.
IsShellExecute(rq) ==
  /\ rq.method = "POST" /\ rq.path = "/shell/execute"
  /\ rq.body.json /\ IsSome(rq.body.command)

\* C1: whenever BashExecutor::execute is given a command that contains a
\* blocked pattern, no subprocess is spawned for that call and execute
\* returns the Blocked error.
C1_BlockedNeverSpawns ==
  \A t \in Taken :
    (IsShellExecute(t.rq) /\ HasBlockedSubstring(Unwrap(t.rq.body.command)))
      => /\ ~LoggedCall(t.rid, "spawn")
         /\ \A i \in 1..Len(log) :
              (log[i][1] = t.rid /\ log[i][2] = "execute") => log[i][3] = "ErrBlocked"

C1_Witness ==
  \E t \in Taken :
    /\ IsShellExecute(t.rq) /\ HasBlockedSubstring(Unwrap(t.rq.body.command))
    /\ Logged(t.rid, "execute", "ErrBlocked")

\* C2: a command whose lowercased text contains the lowercased text of any
\* blocked pattern is classified Blocked, whatever surrounds the match and
\* whether or not a warn pattern matches too.
C2_BlockedSubstringIsBlocked ==
  IsSome(gateClass) =>
    (HasBlockedSubstring(gateCmd) => Unwrap(gateClass).kind = "Blocked")

\* a classified command that holds a blocked pattern in upper case inside
\* other text, and a warn pattern as well
C2_Witness ==
  /\ IsSome(gateClass)
  /\ Unwrap(gateClass).kind = "Blocked"
  /\ HasWarnSubstring(gateCmd)
  /\ gateCmd # to_lowercase(gateCmd)
  /\ Len(gateCmd) > Len(Unwrap(gateClass).pattern)

\* C3: a well-formed shell-execute request with a blocked command is answered
\* by a response that differs from the capability-unavailable one (503,
\* UNAVAILABLE) and spawns no subprocess.
C3_BlockedIsPolicyViolation ==
  \A i \in 1..Len(sent) :
    (/\ desktopSkills
     /\ IsShellExecute(sent[i].rq)
     /\ HasBlockedSubstring(Unwrap(sent[i].rq.body.command)))
      => /\ ~(sent[i].resp.status = 503 /\ sent[i].resp.text = "UNAVAILABLE")
         /\ ~LoggedCall(sent[i].rid, "spawn")

\* C4: every sync call that has returned ran its closure exactly once and
\* returns the stored result of that run; on macOS the closure ran on the
\* main thread, inline when the caller is the main thread (which is never
\* blocked on its own queue) and marshaled otherwise, with the caller blocked
\* for as long as trampoline runs.
C4_SyncRunsOnceAndWaits ==
  /\ \A i \in 1..Len(returned) :
       /\ returned[i].runs = 1
       /\ returned[i].ret \in {"Ok", "Err"}
       /\ platform = "macos" => returned[i].ranOn = Some("main")
       /\ platform = "other" => returned[i].ranOn = Some(returned[i].thread)
       /\ returned[i].thread = "main" => ~returned[i].marshaled
  /\ \A t \in Threads :
       /\ ctx[t].runs <= 1
       /\ tramp = Some(t) => tpc[t] = "blocked"
       /\ tpc[t] = "ready" => IsSome(ctx[t].result)
  /\ tpc["main"] # "blocked"

\* on macOS, the main thread has returned from an inline call and another
\* thread from a marshaled one
C4_Witness ==
  /\ platform = "macos"
  /\ \E i, j \in 1..Len(returned) :
       /\ returned[i].thread = "main" /\ ~returned[i].marshaled
       /\ returned[j].thread # "main" /\ returned[j].marshaled

\* C5: a sync call whose closure panics returns Err, on every path, and no
\* thread (the main thread in particular) is torn down by the panic.
C5_PanicBecomesErr ==
  /\ \A i \in 1..Len(returned) :
       returned[i].ret = (IF returned[i].work = "panics" THEN "Err" ELSE "Ok")
  /\ \A t \in Threads : alive[t] /\ tpc[t] # "dead"

\* a marshaled closure panicked, and the main thread ran a later one
C5_Witness ==
  \E i, j \in 1..Len(returned) :
    /\ i < j
    /\ returned[i].marshaled /\ returned[i].work = "panics" /\ returned[i].ret = "Err"
    /\ returned[j].marshaled /\ returned[j].ranOn = Some("main")

\* C6: at most one request is between its accept and its response, and the
\* recorded calls of one request are never interleaved with another's.
C6_OneRequestAtATime ==
  /\ Cardinality({i \in 1..Len(log) :
        log[i][2] = "accept" /\ ~LoggedCall(log[i][1], "respond")}) <= 1
  /\ \A i, j, k \in 1..Len(log) :
       (i < j /\ j < k /\ log[i][1] = log[k][1]) => log[j][1] = log[i][1]

\* two requests answered, each having spawned its subprocess
C6_Witness ==
  /\ Len(sent) = 2
  /\ LoggedCall(1, "spawn") /\ LoggedCall(2, "spawn")

\* C7: no per-request failure stops the accept loop.
C7_LoopNeverStops == srv # "dead"

\* The seven (method, path) pairs of the bridge.
SevenRoutes ==
  { <<"POST", "/computer/preview">>, <<"POST", "/computer/execute">>,
    <<"POST", "/shell/preview">>, <<"POST", "/shell/execute">>,
    <<"POST", "/autopilot/capture">>, <<"POST", "/autopilot/act">>,
    <<"GET", "/autopilot/permissions">> }

\* The body does not have the request shape of the POST route at `path`.
Malformed(path, body) ==
  \/ ~body.json
  \/ path \in {"/shell/preview", "/shell/execute"} /\ ~IsSome(body.command)
  \/ path \in {"/computer/preview", "/computer/execute"} /\ ~IsSome(body.actions)
  \/ /\ path = "/autopilot/act"
     /\ \/ ~IsSome(body.action) \/ ~IsSome(body.image_width)
        \/ ~IsSome(body.image_height)
        \/ (IsSome(body.action) /\ ~IsSome(Unwrap(body.action).type))

\* C8: a (method, path) outside the seven routes is answered 404; a known
\* POST route with a body that does not decode is answered 400, and no
\* component is called for that request.
C8_NotFoundAndBadRequest ==
  /\ \A i \in 1..Len(sent) :
       LET rq == sent[i].rq
       IN  /\ <<rq.method, rq.path>> \notin SevenRoutes => sent[i].resp.status = 404
           /\ (<<rq.method, rq.path>> \in SevenRoutes /\ rq.method = "POST"
               /\ Malformed(rq.path, rq.body))
                => sent[i].resp.status = 400
  /\ \A t \in Taken :
       (<<t.rq.method, t.rq.path>> \in SevenRoutes /\ t.rq.method = "POST"
        /\ Malformed(t.rq.path, t.rq.body))
         => ComponentCalls(t.rid) = {}

\* a 404 and a 400 have both been sent, the 400 for a JSON object that lacks
\* a required field
C8_Witness ==
  \E i, j \in 1..Len(sent) :
    /\ sent[i].resp.status = 404
    /\ sent[j].resp.status = 400 /\ sent[j].rq.body.json

\* C9: a failure of the downstream operation of a decoded request (the
\* subprocess cannot be launched, an OS call of an action fails, a capture
\* or its encoding fails) is answered 500; 503 is kept for a capability that
\* is compiled out or missing on the host.
C9_FailureIs500 ==
  \A i \in 1..Len(sent) :
    (\/ Logged(sent[i].rid, "execute", "ErrExecution")
     \/ LoggedCall(sent[i].rid, "os_error")
     \/ (sent[i].rq.path = "/autopilot/capture" /\ LoggedCall(sent[i].rid, "monitor")
         /\ sent[i].resp.status # 200))
      => sent[i].resp.status = 500

\* C10: the preview routes call no component; /shell/preview answers 200
\* with the command text as posted (a blocked command too) and
\* /computer/preview answers 200 with the action count and no results.
C10_PreviewHasNoEffect ==
  /\ \A t \in Taken :
       (t.rq.method = "POST" /\ t.rq.path \in {"/shell/preview", "/computer/preview"})
         => ComponentCalls(t.rid) = {}
  /\ \A i \in 1..Len(sent) :
       LET rq == sent[i].rq
       IN  /\ (rq.method = "POST" /\ rq.path = "/shell/preview"
               /\ ~Malformed(rq.path, rq.body))
                => /\ sent[i].resp.status = 200
                   /\ sent[i].resp.output = Unwrap(rq.body.command)
           /\ (rq.method = "POST" /\ rq.path = "/computer/preview"
               /\ ~Malformed(rq.path, rq.body))
                => /\ sent[i].resp.status = 200
                   /\ sent[i].resp.output = <<>>
                   /\ sent[i].resp.n = Len(Unwrap(rq.body.actions))

\* both previews answered, the shell preview for a blocked command
C10_Witness ==
  \E i, j \in 1..Len(sent) :
    /\ sent[i].rq.path = "/shell/preview" /\ sent[i].rq.method = "POST"
    /\ sent[i].rq.body.command = Some(CmdBlocked)
    /\ sent[i].resp.output = CmdBlocked
    /\ sent[j].rq.path = "/computer/preview" /\ sent[j].rq.method = "POST"
    /\ sent[j].resp.status = 200 /\ sent[j].resp.n = 2

\* What a call of the executor did after creating the input device: the
\* enigo calls it made, in order.
InputEvents(out) == SubSeq(out.ev, 2, Len(out.ev))

KeyEvent(key, direction) == <<"key", key \o ":" \o direction, 0, 0>>

\* A key of the list that the executor knows but that is no modifier.
IsMainKey(key) == IsSome(map_key(key)) /\ ~is_modifier(key)

\* C11: for a key action with a key list whose OS calls all succeed, the key
\* events are a Press of each recognised modifier in list order, then at
\* most one Click, of a non-modifier key of the list (exactly one when the
\* list holds such a key), then a Release of each modifier in the reverse
\* of the press order, wherever the non-modifier key stands in the list.
C11_KeyComboOrder ==
  (IsSome(actOut) /\ Unwrap(actOut).ok
   /\ Unwrap(actIn).action.type = Some("key") /\ IsSome(Unwrap(actIn).action.keys))
    => LET keys == Unwrap(Unwrap(actIn).action.keys)
           ev == InputEvents(Unwrap(actOut))
           mods == SelectSeq(keys, is_modifier)
           n == Len(mods)
           k == Len(ev) - 2 * n
       IN  /\ k \in {0, 1}
           /\ \A i \in 1..n : ev[i] = KeyEvent(Unwrap(map_key(mods[i])), "Press")
           /\ \A i \in 1..n :
                ev[n + k + i] = KeyEvent(Unwrap(map_key(mods[n + 1 - i])), "Release")
           /\ k = 1 => \E j \in 1..Len(keys) :
                         /\ IsMainKey(keys[j])
                         /\ ev[n + 1] = KeyEvent(Unwrap(map_key(keys[j])), "Click")
           /\ (\E j \in 1..Len(keys) : IsMainKey(keys[j])) => k = 1

\* the combination A, SHIFT, cmd: the non-modifier key stands first
C11_Witness ==
  /\ IsSome(actOut) /\ Unwrap(actOut).ok
  /\ Unwrap(actIn).action.keys
       = Some(<< <<"A">>, <<"S", "H", "I", "F", "T">>, <<"c", "m", "d">> >>)
  /\ InputEvents(Unwrap(actOut))
       = << KeyEvent("Shift", "Press"), KeyEvent("Meta", "Press"),
            KeyEvent("Unicode:A", "Click"),
            KeyEvent("Meta", "Release"), KeyEvent("Shift", "Release") >>

\* The four image-space coordinates of a drag action that carries them all.
FullDrag(action) ==
  /\ action.type = Some("drag")
  /\ IsSome(action.start_x) /\ IsSome(action.start_y)
  /\ IsSome(action.end_x) /\ IsSome(action.end_y)

\* C12: a drag action that carries start_x, start_y, end_x and end_y and
\* whose OS calls succeed emits exactly four input events: move to the
\* mapped start point, press of the left button, move to the mapped end
\* point, release of the left button, in this order.
C12_DragFourSteps ==
  (IsSome(actOut) /\ Unwrap(actOut).ok /\ FullDrag(Unwrap(actIn).action))
    => LET c == Unwrap(actIn)
           a == c.action
           from == map_coords(Unwrap(a.start_x), Unwrap(a.start_y), c.iw, c.ih, c.sw, c.sh)
           to == map_coords(Unwrap(a.end_x), Unwrap(a.end_y), c.iw, c.ih, c.sw, c.sh)
       IN  InputEvents(Unwrap(actOut))
             = << <<"move_mouse", "Abs", from[1], from[2]>>,
                  <<"button", "Left:Press", 0, 0>>,
                  <<"move_mouse", "Abs", to[1], to[2]>>,
                  <<"button", "Left:Release", 0, 0>> >>

\* a drag from (640, 360) to (1280, 720) of a 1280x720 image on a 1920x1080
\* screen
C12_Witness ==
  /\ IsSome(actOut) /\ Unwrap(actOut).ok /\ FullDrag(Unwrap(actIn).action)
  /\ Unwrap(actIn).iw = 1280 /\ Unwrap(actIn).sw = 1920
  /\ InputEvents(Unwrap(actOut))
       = << <<"move_mouse", "Abs", 960, 540>>, <<"button", "Left:Press", 0, 0>>,
            <<"move_mouse", "Abs", 1920, 1080>>, <<"button", "Left:Release", 0, 0>> >>

\* round(num / den) for den > 0, of the exact quotient: to the nearest
\* integer, a tie away from zero.
RoundQuotient(num, den) ==
  IF num >= 0 THEN (2 * num + den) \div (2 * den)
  ELSE 0 - ((2 * (0 - num) + den) \div (2 * den))

\* The mapped point of the image-space point (x, y), as section 3 of the
\* specification gives it.
MappedPoint(x, y, iw, ih, sw, sh) ==
  IF iw = 0 \/ ih = 0 THEN <<x, y>>
  ELSE <<RoundQuotient(x * sw, iw), RoundQuotient(y * sh, ih)>>

\* The image-space points of an action that its arm of execute moves to, in
\* the order of the moves.
PointsOf(action) ==
  IF action.type \in {Some("move_mouse"), Some("click"), Some("double_click")}
    THEN IF IsSome(action.x) /\ IsSome(action.y)
           THEN << <<Unwrap(action.x), Unwrap(action.y)>> >>
           ELSE <<>>
  ELSE IF FullDrag(action)
    THEN << <<Unwrap(action.start_x), Unwrap(action.start_y)>>,
            <<Unwrap(action.end_x), Unwrap(action.end_y)>> >>
  ELSE <<>>

IsMove(e) == e[1] = "move_mouse"

\* C13: every pointer position that move, click, double-click and drag pass
\* to the OS is the mapped point of the request's image-space point:
\* (round(x / iw * sw), round(y / ih * sh)) when iw > 0 and ih > 0, and
\* (x, y) unchanged when iw = 0 or ih = 0.
C13_PointerIsMappedPoint ==
  IsSome(actOut) =>
    LET c == Unwrap(actIn)
        moves == SelectSeq(InputEvents(Unwrap(actOut)), IsMove)
        points == PointsOf(c.action)
    IN  /\ Len(moves) <= Len(points)
        /\ \A i \in 1..Len(moves) :
             <<moves[i][3], moves[i][4]>>
               = MappedPoint(points[i][1], points[i][2], c.iw, c.ih, c.sw, c.sh)

\* The OS-facing calls of the action executor, as the log names them.
OsFacingCalls == {"enigo_new", "move_mouse", "button", "key", "text", "scroll"}

\* C14: on a platform that requires thread affinity, every OS-facing call
\* the action executor makes for an act request (creating the input device,
\* pointer moves, button and key events, text, scroll) is routed through
\* the thread-affinity dispatcher: a call of sync carries it to the main
\* thread; none runs directly on the bridge's background thread.
C14_ExecutorCallsAreMarshaled ==
  platform = "macos" =>
    \A t \in Taken :
      (t.rq.method = "POST" /\ t.rq.path = "/autopilot/act")
        => \A i \in 1..Len(log) :
             (log[i][1] = t.rid /\ log[i][2] \in OsFacingCalls)
               => \E c \in Threads : calls[c] > 0

RECURSIVE CharLen(_)
\* The length of a text in characters.
CharLen(s) ==
  IF s = <<>> THEN 0 ELSE Head(s)[3] + CharLen(Tail(s))

RECURSIVE FirstChars(_, _)
\* The first n characters of a text.
FirstChars(s, n) ==
  IF n = 0 \/ s = <<>> THEN <<>>
  ELSE IF Head(s)[3] <= n THEN <<Head(s)>> \o FirstChars(Tail(s), n - Head(s)[3])
  ELSE <<<<"run", Head(s)[2], n>>>>

\* What the specification says truncate_output(s, budget) is.
Truncated(s, budget) ==
  IF CharLen(s) <= budget THEN s
  ELSE FirstChars(s, budget) \o <<<<"cut", CharLen(s), 0>>>>

\* C16: truncate_output(s, budget) is s itself, without marker, when the
\* length of s is at most budget, and otherwise the first budget characters
\* of s followed by a marker that states the original length of s; stdout
\* and stderr are truncated independently, with budgets 5000 and 2000.
C16_TruncateOutput ==
  IsSome(outOut) =>
    /\ Unwrap(outOut).tag = "Ok"
    /\ Unwrap(outOut).stdout = Truncated(Unwrap(outIn).stdout, 5000)
    /\ Unwrap(outOut).stderr = Truncated(Unwrap(outIn).stderr, 2000)

\* The display string as the specification composes it: the exit-code
\* marker in front when the code is not 0, stdout, then stderr behind the
\* error marker (on a new line when stdout came first), and the sentinel in
\* place of an empty string.
Display(stdout, stderr, exit_code) ==
  LET code == IF exit_code # 0 THEN <<<<"code", exit_code, 0>>>> ELSE <<>>
      sep == IF stdout # <<>> THEN <<<<"nl", 0, 0>>>> ELSE <<>>
      err == IF stderr # <<>> THEN sep \o <<<<"err", 0, 0>>>> \o stderr ELSE <<>>
      whole == code \o stdout \o err
  IN  IF whole = <<>> THEN <<<<"none", 0, 0>>>> ELSE whole

\* C17: the display string of a shell result is stdout, then stderr behind
\* the error marker when stderr is not empty, with the exit-code marker in
\* front when the exit code is not 0; a result that is entirely empty
\* renders as the no-output sentinel, never as the empty string.
C17_DisplayString ==
  (IsSome(outOut) /\ Unwrap(outOut).tag = "Ok")
    => LET r == Unwrap(outOut)
       IN  /\ r.text = Display(r.stdout, r.stderr, r.exit_code)
           /\ r.text # <<>>
           /\ (r.stdout = <<>> /\ r.stderr = <<>> /\ r.exit_code = 0)
                => r.text = <<<<"none", 0, 0>>>>

\* "hi\n" on stdout, 2000 bytes on stderr and exit code 1
C17_Witness ==
  /\ IsSome(outOut)
  /\ Unwrap(outOut).text
       = << <<"code", 1, 0>>, <<"run", 1, 3>>, <<"nl", 0, 0>>, <<"err", 0, 0>>,
            <<"run", 1, 2000>> >>

\* The positions in the log of the calls `name` recorded for request rid.
CallsOf(rid, name) == {i \in 1..Len(log) : log[i][1] = rid /\ log[i][2] = name}

\* A shell-execute request whose run of execute has come to its end.
Executed(t) == IsShellExecute(t.rq) /\ LoggedCall(t.rid, "execute")

\* C18: a command that matches no blocked pattern but a warn pattern is
\* classified allowed-with-warning; the warning is emitted and the command
\* is then passed to the subprocess layer exactly once, as an allowed
\* command without warning is (which is passed once, with no warning).
C18_WarnedStillRuns ==
  \A t \in Taken :
    LET c == Unwrap(t.rq.body.command)
    IN  (Executed(t) /\ ~HasBlockedSubstring(c))
          => /\ Cardinality(CallsOf(t.rid, "spawn")) = 1
             /\ IF HasWarnSubstring(c)
                  THEN /\ classify(c).kind = "Warned"
                       /\ Cardinality(CallsOf(t.rid, "warn")) = 1
                       /\ \A w \in CallsOf(t.rid, "warn"), p \in CallsOf(t.rid, "spawn") :
                            w < p
                  ELSE /\ classify(c).kind = "Allowed"
                       /\ CallsOf(t.rid, "warn") = {}

\* "sudo ls" has been answered 200 after one warning and one spawn
C18_Witness ==
  \E i \in 1..Len(sent) :
    /\ IsShellExecute(sent[i].rq) /\ sent[i].rq.body.command = Some(CmdWarned)
    /\ HasWarnSubstring(CmdWarned) /\ ~HasBlockedSubstring(CmdWarned)
    /\ Cardinality(CallsOf(sent[i].rid, "warn")) = 1
    /\ Cardinality(CallsOf(sent[i].rid, "spawn")) = 1
    /\ sent[i].resp.status = 200

\* The type tags the specification enumerates, and the calls that
\* synthesize input.
SevenActionTypes ==
  {"move_mouse", "click", "double_click", "drag", "type", "key", "scroll"}

InputCalls == {"move_mouse", "button", "key", "text", "scroll"}

\* A decoded act request whose action has a type tag outside the seven.
UnknownAct(rq) ==
  /\ rq.method = "POST" /\ rq.path = "/autopilot/act"
  /\ ~Malformed(rq.path, rq.body)
  /\ Unwrap(Unwrap(rq.body.action).type) \notin SevenActionTypes

NoInputCall(rid) ==
  \A i \in 1..Len(log) : log[i][1] = rid => log[i][2] \notin InputCalls

\* C19 as stated: for every action whose type tag is outside the seven,
\* AutopilotExecutor::execute fails with the "unknown action" error and
\* synthesizes no input event, and the act route reports a failure.
C19_UnknownActionError ==
  \A i \in 1..Len(sent) :
    (UnknownAct(sent[i].rq) /\ LoggedCall(sent[i].rid, "enigo_new"))
      => /\ sent[i].resp.status = 500
         /\ sent[i].resp.text = "unknown action"
         /\ NoInputCall(sent[i].rid)

\* C19, amended: for every action whose type tag is outside the seven,
\* execute first creates the input device; when that fails it returns the
\* device's error, otherwise the "unknown action" error; either way no
\* input event is synthesized and the act route answers with a failure
\* status (500 from execute, 503 when the executor or the capability is
\* missing), never 200.
C19_UnknownActionNeverSucceeds ==
  \A i \in 1..Len(sent) :
    UnknownAct(sent[i].rq)
      => /\ NoInputCall(sent[i].rid)
         /\ sent[i].resp.status \in {500, 503}
         /\ LoggedCall(sent[i].rid, "enigo_new")
              => /\ sent[i].resp.status = 500
                 /\ sent[i].resp.text
                      = (IF Logged(sent[i].rid, "enigo_new", "Ok")
                           THEN "unknown action" ELSE "enigo: cannot create")

\* a "hover" action has been answered 500 "unknown action"
C19_Witness ==
  \E i \in 1..Len(sent) :
    /\ UnknownAct(sent[i].rq)
    /\ Logged(sent[i].rid, "enigo_new", "Ok")
    /\ sent[i].resp.status = 500 /\ sent[i].resp.text = "unknown action"

\* The result and the input events a scroll action has when the input
\* device could be created.
ScrollOutcome(out, amount, failed) ==
  IF amount = 0
    THEN out.ok /\ out.text = "scroll" /\ InputEvents(out) = <<>>
  ELSE IF ~failed
    THEN /\ out.ok /\ out.text = "scroll"
         /\ InputEvents(out) = << <<"scroll", "Vertical", amount, 0>> >>
  ELSE ~out.ok /\ InputEvents(out) = << <<"os_error", "scroll", 0, 0>> >>

IsScrollAction(action) == action.type = Some("scroll")

DeltaOf(action) == IF IsSome(action.dy) THEN Unwrap(action.dy) ELSE 0

\* C20 as stated: a scroll action with delta 0, or with no delta, emits no
\* scroll event and returns success with label "scroll"; with a non-zero
\* delta it emits exactly one vertical scroll event carrying that delta.
C20_ScrollAsStated ==
  (IsSome(actOut) /\ IsScrollAction(Unwrap(actIn).action))
    => ScrollOutcome(Unwrap(actOut), DeltaOf(Unwrap(actIn).action), FALSE)

\* C20, amended: when the input device can be created, a scroll action with
\* delta 0 or no delta makes no scroll call and returns success with label
\* "scroll", and one with a non-zero delta makes exactly one vertical scroll
\* call with that signed delta and returns success with label "scroll" when
\* the call succeeds and its error otherwise; when the device cannot be
\* created the action fails with that error and no scroll call is made.
C20_ScrollOnceDeviceExists ==
  (IsSome(actOut) /\ IsScrollAction(Unwrap(actIn).action))
    => IF Unwrap(actIn).enigo_ok
         THEN ScrollOutcome(Unwrap(actOut), DeltaOf(Unwrap(actIn).action),
                            Unwrap(actIn).fail_at # 0)
         ELSE ~Unwrap(actOut).ok /\ InputEvents(Unwrap(actOut)) = <<>>

\* a scroll with dy = 0 has returned "scroll" without any input event
C20_Witness ==
  /\ IsSome(actOut) /\ IsScrollAction(Unwrap(actIn).action)
  /\ Unwrap(actIn).action.dy = Some(0)
  /\ Unwrap(actOut).ok /\ Unwrap(actOut).text = "scroll"
  /\ InputEvents(Unwrap(actOut)) = <<>>

\* The fields the arm of execute for type tag ty reads.
FieldsRead(ty) ==
  IF ty \in {"move_mouse", "double_click"} THEN {"x", "y"}
  ELSE IF ty = "click" THEN {"x", "y", "button"}
  ELSE IF ty = "drag" THEN {"start_x", "start_y", "end_x", "end_y"}
  ELSE IF ty = "type" THEN {"text"}
  ELSE IF ty = "key" THEN {"keys"}
  ELSE IF ty = "scroll" THEN {"dy"}
  ELSE {}

Kept(action, f) == IF f \in FieldsRead(Unwrap(action.type)) THEN action[f] ELSE None

\* The action without the fields that are irrelevant to its tag.
WithoutIrrelevant(action) ==
  [type |-> action.type, x |-> Kept(action, "x"), y |-> Kept(action, "y"),
   button |-> Kept(action, "button"), start_x |-> Kept(action, "start_x"),
   start_y |-> Kept(action, "start_y"), end_x |-> Kept(action, "end_x"),
   end_y |-> Kept(action, "end_y"), text |-> Kept(action, "text"),
   keys |-> Kept(action, "keys"), dy |-> Kept(action, "dy")]

\* A move without x or y, a drag lacking one of its four coordinates, a type
\* without text, a key action without keys.
LacksItsFields(action) ==
  \/ action.type = Some("move_mouse") /\ (action.x = None \/ action.y = None)
  \/ action.type = Some("drag") /\ ~FullDrag(action)
  \/ action.type = Some("type") /\ action.text = None
  \/ action.type = Some("key") /\ action.keys = None

ClickWithoutPoint(action) ==
  action.type = Some("click") /\ (action.x = None \/ action.y = None)

SelectedButton(action) ==
  IF action.button = Some("right") THEN "Right"
  ELSE IF action.button = Some("middle") THEN "Middle"
  ELSE "Left"

ButtonClick(button) == <<"button", button \o ":Click", 0, 0>>

\* What holds of the events of a call c with result out whether or not the
\* input device could be created: an action that lacks its fields emits no
\* input event, a click without a point emits no move, and the result is the
\* one of the same action without its irrelevant fields.
FieldsAreOptional(c, out) ==
  /\ LacksItsFields(c.action) => InputEvents(out) = <<>>
  /\ ClickWithoutPoint(c.action) => SelectSeq(InputEvents(out), IsMove) = <<>>
  /\ out = autopilot_execute(WithoutIrrelevant(c.action), c.iw, c.ih, c.sw, c.sh,
                             c.enigo_ok, c.fail_at)

\* C21 as stated: a known action never fails for a missing or irrelevant
\* field: a move without x or y, a drag lacking a coordinate, a type without
\* text and a key action without keys emit no input event and return
\* success with the action's label; a click without a point emits the button
\* click without a preceding move; irrelevant fields have no effect.
C21_MissingFieldsSucceed ==
  (IsSome(actOut) /\ Unwrap(Unwrap(actIn).action.type) \in SevenActionTypes)
    => LET c == Unwrap(actIn)
           out == Unwrap(actOut)
       IN  /\ FieldsAreOptional(c, out)
           /\ LacksItsFields(c.action)
                => out.ok /\ out.text = Unwrap(c.action.type)
           /\ (ClickWithoutPoint(c.action) /\ c.fail_at = 0)
                => InputEvents(out) = <<ButtonClick(SelectedButton(c.action))>>

\* C21, amended: when the input device can be created, a move without x or
\* y, a drag lacking a coordinate, a type without text and a key action
\* without keys emit no input event and return success with the action's
\* label, and a click without a point makes the button click as its first
\* and only call, with no move before it; when the device cannot be created
\* each of them fails with that error and emits nothing. In both cases the
\* fields irrelevant to the tag change neither the events nor the result.
C21_MissingFieldsOnceDeviceExists ==
  (IsSome(actOut) /\ Unwrap(Unwrap(actIn).action.type) \in SevenActionTypes)
    => LET c == Unwrap(actIn)
           out == Unwrap(actOut)
       IN  /\ FieldsAreOptional(c, out)
           /\ LacksItsFields(c.action)
                => IF c.enigo_ok THEN out.ok /\ out.text = Unwrap(c.action.type)
                   ELSE ~out.ok
           /\ ClickWithoutPoint(c.action)
                => InputEvents(out)
                     = (IF ~c.enigo_ok THEN <<>>
                        ELSE IF c.fail_at = 0
                          THEN <<ButtonClick(SelectedButton(c.action))>>
                        ELSE << <<"os_error", "button", 0, 0>> >>)

\* a drag that has x, y, text, keys and dy but no end_y has returned "drag"
\* without any input event
C21_Witness ==
  /\ IsSome(actOut)
  /\ Unwrap(actIn).action = [FullAction("drag") EXCEPT !.end_y = None]
  /\ Unwrap(actOut).ok /\ Unwrap(actOut).text = "drag"
  /\ InputEvents(Unwrap(actOut)) = <<>>

IsRecognized(key) == IsSome(map_key(key))

\* A key call that is neither the press nor the release of a modifier.
IsClickOfKey(e) ==
  /\ e[1] = "key"
  /\ e[2] \notin {m \o ":" \o d : m \in {"Meta", "Control", "Alt", "Shift"},
                                   d \in {"Press", "Release"}}

\* A key action with a key list.
IsKeyCombo(action) == action.type = Some("key") /\ IsSome(action.keys)

\* The modifiers of the list pressed in list order, a click of the last
\* recognised non-modifier key if the list has one, the modifiers released
\* in reverse order.
AroundTheClick(keys) ==
  LET mods == SelectSeq(keys, is_modifier)
      mains == SelectSeq(keys, IsMainKey)
      n == Len(mods)
  IN  [i \in 1..n |-> KeyEvent(Unwrap(map_key(mods[i])), "Press")]
      \o (IF mains = <<>> THEN <<>>
          ELSE <<KeyEvent(Unwrap(map_key(mains[Len(mains)])), "Click")>>)
      \o [i \in 1..n |-> KeyEvent(Unwrap(map_key(mods[n + 1 - i])), "Release")]

\* At most one key is clicked, and the names that map to no key play no
\* part: the result is that of the list without them.
DropsUnrecognized(c, out) ==
  /\ Len(SelectSeq(InputEvents(out), IsClickOfKey)) <= 1
  /\ out = autopilot_execute(
             [c.action EXCEPT !.keys = Some(SelectSeq(Unwrap(c.action.keys), IsRecognized))],
             c.iw, c.ih, c.sw, c.sh, c.enigo_ok, c.fail_at)

\* C22 as stated: in a key-combo the names that map to no key are dropped
\* without failing the action and at most one non-modifier key is clicked;
\* the recognised modifiers are pressed and released around that single
\* click and the action returns success with label "key".
C22_KeyComboSucceeds ==
  (IsSome(actOut) /\ IsKeyCombo(Unwrap(actIn).action))
    => LET c == Unwrap(actIn)
           out == Unwrap(actOut)
       IN  /\ DropsUnrecognized(c, out)
           /\ out.ok /\ out.text = "key"
           /\ InputEvents(out) = AroundTheClick(Unwrap(c.action.keys))

\* C22, amended: in a key-combo the names that map to no key are dropped
\* and at most one non-modifier key is clicked, the last recognised one of
\* the list; when the input device can be created and every key call
\* succeeds, the recognised modifiers are pressed and released around that
\* single click and the action returns success with label "key"; otherwise
\* the action fails.
C22_KeyComboOnceCallsSucceed ==
  (IsSome(actOut) /\ IsKeyCombo(Unwrap(actIn).action))
    => LET c == Unwrap(actIn)
           out == Unwrap(actOut)
       IN  /\ DropsUnrecognized(c, out)
           /\ IF c.enigo_ok /\ c.fail_at = 0
                THEN /\ out.ok /\ out.text = "key"
                     /\ InputEvents(out) = AroundTheClick(Unwrap(c.action.keys))
                ELSE ~out.ok

\* the list Ctrl, F13, A, SHIFT, b: F13 maps to no key, A and b are both
\* non-modifiers
C22_Witness ==
  /\ IsSome(actOut) /\ Unwrap(actOut).ok /\ Unwrap(actOut).text = "key"
  /\ Unwrap(actIn).action.keys
       = Some(<< <<"C", "t", "r", "l">>, <<"F", "1", "3">>, <<"A">>,
                 <<"S", "H", "I", "F", "T">>, <<"b">> >>)
  /\ InputEvents(Unwrap(actOut))
       = << KeyEvent("Control", "Press"), KeyEvent("Shift", "Press"),
            KeyEvent("Unicode:b", "Click"),
            KeyEvent("Shift", "Release"), KeyEvent("Control", "Release") >>

IsButtonEvent(e) == e[1] = "button"

\* The move in front of a click or a double-click: to the point map_coords
\* gives for (x, y) when the action carries both, none otherwise.
MoveToPoint(c) ==
  IF IsSome(c.action.x) /\ IsSome(c.action.y)
    THEN LET p == map_coords(Unwrap(c.action.x), Unwrap(c.action.y), c.iw, c.ih, c.sw, c.sh)
         IN  << <<"move_mouse", "Abs", p[1], p[2]>> >>
    ELSE <<>>

\* The events of a move, a click and a double-click whose calls are all made.
PointerEvents(c) ==
  MoveToPoint(c)
  \o (IF c.action.type = Some("click") THEN <<ButtonClick(SelectedButton(c.action))>>
      ELSE IF c.action.type = Some("double_click")
        THEN <<ButtonClick("Left"), ButtonClick("Left")>>
      ELSE <<>>)

IsPointerAction(action) ==
  action.type \in {Some("move_mouse"), Some("click"), Some("double_click")}

\* C23 as stated: a click emits, after the optional move to the mapped
\* point, exactly one press-release of the selected button (right for
\* "right", middle for "middle", left otherwise); a double-click emits,
\* after the optional move, exactly two press-release cycles of the left
\* button whatever the selector says; a move emits no button event.
C23_ClickEvents ==
  (IsSome(actOut) /\ IsPointerAction(Unwrap(actIn).action))
    => IF Unwrap(actIn).action.type = Some("move_mouse")
         THEN SelectSeq(InputEvents(Unwrap(actOut)), IsButtonEvent) = <<>>
         ELSE InputEvents(Unwrap(actOut)) = PointerEvents(Unwrap(actIn))

\* C23, amended: when the input device can be created and every call on it
\* succeeds, a click emits the optional move and then exactly one
\* press-release of the selected button, a double-click the optional move
\* and then exactly two press-release cycles of the left button, and the
\* action returns its label; when the device cannot be created or a call
\* fails, the action fails and its button events are the first ones of that
\* sequence, fewer than in the successful run. A move never emits a button
\* event.
C23_ClickEventsOnceCallsSucceed ==
  (IsSome(actOut) /\ IsPointerAction(Unwrap(actIn).action))
    => LET c == Unwrap(actIn)
           out == Unwrap(actOut)
           buttons == SelectSeq(InputEvents(out), IsButtonEvent)
           all == SelectSeq(PointerEvents(c), IsButtonEvent)
       IN  IF c.enigo_ok /\ c.fail_at = 0
             THEN /\ out.ok /\ out.text = Unwrap(c.action.type)
                  /\ InputEvents(out) = PointerEvents(c)
             ELSE /\ ~out.ok
                  /\ Len(buttons) < Len(all) \/ all = <<>>
                  /\ buttons = SubSeq(all, 1, Len(buttons))

\* a double-click at (640, 360) whose button selector says "middle" has
\* moved and clicked the left button twice
C23_Witness ==
  /\ IsSome(actOut) /\ Unwrap(actOut).ok
  /\ Unwrap(actIn).action.type = Some("double_click")
  /\ Unwrap(actIn).action.button = Some("middle")
  /\ InputEvents(Unwrap(actOut))
       = << <<"move_mouse", "Abs", 960, 540>>, ButtonClick("Left"), ButtonClick("Left") >>

\* A call that was made and succeeded (the failed call is logged as
\* os_error).
IsEmitted(e) == e[1] # "os_error"

\* The input events of the same call when none of its OS calls fails.
SuccessfulRun(c) ==
  InputEvents(autopilot_execute(c.action, c.iw, c.ih, c.sw, c.sh, TRUE, 0))

\* Held after the events: pressed, and not released after that press.
HeldAfter(events, name, what) ==
  \E i \in 1..Len(events) :
    /\ events[i] = <<name, what \o ":Press", 0, 0>>
    /\ \A j \in (i + 1)..Len(events) : events[j] # <<name, what \o ":Release", 0, 0>>

Modifiers == {"Meta", "Control", "Alt", "Shift"}

IsModifierPress(e) == \E m \in Modifiers : e = KeyEvent(m, "Press")

IsModifierRelease(e) == \E m \in Modifiers : e = KeyEvent(m, "Release")

\* A call c that failed at an OS call returned the error at once: the events
\* it emitted are the ones before the failed call, a strict prefix of the
\* events of the successful run, and nothing follows the failed call.
ReturnsAtOnce(c, out) ==
  LET emitted == SelectSeq(InputEvents(out), IsEmitted)
      full == SuccessfulRun(c)
  IN  /\ ~out.ok /\ out.text = "enigo: input error"
      /\ Len(emitted) = c.fail_at - 1
      /\ Len(emitted) < Len(full)
      /\ emitted = SubSeq(full, 1, Len(emitted))
      /\ InputEvents(out)[Len(InputEvents(out))][1] = "os_error"

DragFailsAfterPress(c) == c.action.type = Some("drag") /\ c.fail_at > 2

NewCalls == SubSeq(log', Len(log) + 1, Len(log'))

\* The handler of the request in hand returns its response in this step.
HandlerReturns == srv = "handle" /\ srv' = "respond"

\* The handler answers from its request and the present host alone: a
\* permissions query reports the host as it is now, having probed the
\* display and the input device in this step; the act route has built its
\* executor and its input device in this step; a subprocess starts in the
\* default working directory.
AnsweredFromRequestAndHost ==
  LET rq == Unwrap(cur).rq
      r == Unwrap(resp')
      route == Route(rq.method, rq.path)
      made(name) == \E i \in 1..Len(NewCalls) : NewCalls[i][2] = name
  IN  /\ (route = "autopilot_permissions" /\ r.status = 200)
           => /\ r.output = <<host.monitor # "error", host.enigo>>
              /\ made("monitor") /\ made("enigo_new")
      /\ (route = "autopilot_act" /\ r.status \in {200, 500})
           => /\ made("monitor") /\ made("enigo_new")
              /\ host.monitor = "ok"
              /\ r.status = 200 => host.enigo
      /\ \A i \in 1..Len(NewCalls) :
           NewCalls[i][2] = "spawn" => NewCalls[i][3] = "bash -c"

\* C25: no entity outlives a request: at the top of the loop the bridge
\* holds neither a request nor a response, and the response a handler
\* returns depends only on its request and on the host at that time, never
\* on an earlier request: every shell execute starts in the default working
\* directory and every permissions query computes the status anew.
C25_RequestScoped ==
  [][ /\ srv' = "accept" => (cur' = None /\ resp' = None)
      /\ HandlerReturns => AnsweredFromRequestAndHost ]_vars

\* two permissions queries have been answered, the second differently from
\* the first: the host changed in between
C25_Witness ==
  /\ Len(sent) = 2
  /\ \A i \in 1..2 : /\ sent[i].rq = Req("GET", "/autopilot/permissions", GarbageBody)
                      /\ sent[i].resp.status = 200
  /\ sent[1].resp.output = <<TRUE, TRUE>>
  /\ sent[2].resp.output = <<TRUE, FALSE>>

=============================================================================
